---- MODULE Spec2Model ----
(***************************************************************************)
(* Recurrence engine of the task manager: the rule parser, the             *)
(* next-occurrence calculator, the instance generator                      *)
(* (backend/services/recurrence.py) and the REST and chat-tool operations  *)
(* that complete tasks (backend/routers/tasks.py, backend/chat/tools.py,   *)
(* backend/routers/reminders.py).                                          *)
(*                                                                         *)
(* Representation.  A calendar date is the tuple <<year, month, day>>, an  *)
(* absent date (None) is <<>>.  A datetime is a number of hours since      *)
(* 0001-01-01T00:00 minus 24 (ordinal * 24 + hour).  An optional value is  *)
(* <<>> (None) or <<v>>.  A rule string is the sequence of its             *)
(* ";"-separated segments; a segment with "=" is [eq |-> TRUE, key, value] *)
(* and one without is [eq |-> FALSE, key |-> text, value |-> ""].          *)
(***************************************************************************)
EXTENDS Integers, Sequences, FiniteSets, TLC

VARIABLES
    current_due,  \* argument of compute_next_due_date under evaluation
    rule,         \* argument of compute_next_due_date under evaluation
    result,       \* what compute_next_due_date returned (or raised)
    pc,           \* "call" or "generate" before a function is applied,
                  \* "done" after it, "idle" in the task manager
    now,          \* the clock, in hours (datetime.utcnow / date.today)
    tasks,        \* committed rows of table tasks: task id -> Task
    reminders,    \* committed rows of table reminders: reminder id -> Reminder
    dirty,        \* attributes set on Task objects of a chat session and
                  \* not yet committed or rolled back: task id -> overlay
    ids,          \* the next fresh task id, reminder id and group id (uuid4)
    origin,       \* history: generated task id -> id of the task it came from
    response,     \* the last operation and what it answered
    ops           \* number of requests and tool calls served so far

None == <<>>

----------------------------------------------------------------------------
(* datetime.date arithmetic, as CPython computes it                        *)

IsLeap(y) == y % 4 = 0 /\ (y % 100 # 0 \/ y % 400 = 0)

DAYS_IN_MONTH == <<31, 28, 31, 30, 31, 30, 31, 31, 30, 31, 30, 31>>

DAYS_BEFORE_MONTH == <<0, 31, 59, 90, 120, 151, 181, 212, 243, 273, 304, 334>>

\* calendar.monthrange(year, month)[1]
MonthRange(y, m) == DAYS_IN_MONTH[m] + (IF m = 2 /\ IsLeap(y) THEN 1 ELSE 0)

DaysBeforeYear(y) ==
    LET y1 == y - 1 IN y1 * 365 + (y1 \div 4) - (y1 \div 100) + (y1 \div 400)

DaysBeforeMonth(y, m) ==
    DAYS_BEFORE_MONTH[m] + (IF m > 2 /\ IsLeap(y) THEN 1 ELSE 0)

\* date.toordinal()
ToOrdinal(d) == DaysBeforeYear(d[1]) + DaysBeforeMonth(d[1], d[2]) + d[3]

\* date.fromordinal(n)
FromOrdinal(n) ==
    LET n0   == n - 1
        n400 == n0 \div 146097
        r400 == n0 % 146097
        n100 == r400 \div 36524
        r100 == r400 % 36524
        n4   == r100 \div 1461
        r4   == r100 % 1461
        n1   == r4 \div 365
        r1   == r4 % 365
        year == n400 * 400 + 1 + n100 * 100 + n4 * 4 + n1
    IN  IF n1 = 4 \/ n100 = 4
        THEN <<year - 1, 12, 31>>
        ELSE LET leap  == n1 = 3 /\ (n4 # 24 \/ n100 = 3)
                 bump(m) == IF m > 2 /\ leap THEN 1 ELSE 0
                 m0    == (r1 + 50) \div 32
                 month == IF DAYS_BEFORE_MONTH[m0] + bump(m0) > r1
                          THEN m0 - 1 ELSE m0
                 preceding == DAYS_BEFORE_MONTH[month] + bump(month)
             IN  <<year, month, r1 - preceding + 1>>

\* date + timedelta(days=n)
AddDays(d, n) == FromOrdinal(ToOrdinal(d) + n)

\* date.weekday(): Monday is 0
Weekday(d) == (ToOrdinal(d) + 6) % 7

\* d1 > d2 on dates: the (year, month, day) tuples compare lexicographically
DateGT(d1, d2) ==
    \/ d1[1] > d2[1]
    \/ d1[1] = d2[1] /\ d1[2] > d2[2]
    \/ d1[1] = d2[1] /\ d1[2] = d2[2] /\ d1[3] > d2[3]

\* date(year, month, day) accepts the triple
ValidDate(y, m, d) == m \in 1..12 /\ d >= 1 /\ d <= MonthRange(y, m)

HoursPerDay == 24

\* datetime(d.year, d.month, d.day): midnight of the date
Midnight(d) == ToOrdinal(d) * HoursPerDay

\* date.today() for the clock value t
Today(t) == FromOrdinal(t \div HoursPerDay)

----------------------------------------------------------------------------
(* Rule strings                                                            *)

Seg(k, v) == [eq |-> TRUE, key |-> k, value |-> v]

Bare(s) == [eq |-> FALSE, key |-> s, value |-> ""]

\* str.strip() on the texts that occur in the rules below
Strip(s) ==
    CASE s = " WEEKLY" -> "WEEKLY"
      [] s = " MO"     -> "MO"
      [] s = " b"      -> "b"
      [] s = " "       -> ""
      [] OTHER         -> s

\* str.upper() on the keys that occur in the rules below
Upper(s) ==
    CASE s = "freq"  -> "FREQ"
      [] s = "until" -> "UNTIL"
      [] s = "byday" -> "BYDAY"
      [] OTHER       -> s

\* value.split(",") on the BYDAY texts that occur in the rules below
SplitComma(s) ==
    CASE s = "MO,WE,FR" -> <<"MO", "WE", "FR">>
      [] s = "FR,XX,MO" -> <<"FR", "XX", "MO">>
      [] s = "TU,TU"    -> <<"TU", "TU">>
      [] s = "SA, MO,"  -> <<"SA", " MO", "">>
      [] s = "XX,mo"    -> <<"XX", "mo">>
      [] OTHER          -> <<s>>

\* int(text): [ok |-> FALSE] stands for ValueError
ParseInt(s) ==
    CASE s = "31" -> [ok |-> TRUE, val |-> 31]
      [] s = "30" -> [ok |-> TRUE, val |-> 30]
      [] s = "15" -> [ok |-> TRUE, val |-> 15]
      [] s = "1"  -> [ok |-> TRUE, val |-> 1]
      [] s = "35" -> [ok |-> TRUE, val |-> 35]
      [] s = "0"  -> [ok |-> TRUE, val |-> 0]
      [] s = "-1" -> [ok |-> TRUE, val |-> 0 - 1]
      [] OTHER    -> [ok |-> FALSE, val |-> 0]

\* date.fromisoformat(text): [ok |-> FALSE] stands for ValueError
FromIsoFormat(s) ==
    CASE s = "2025-06-10" -> [ok |-> TRUE, val |-> <<2025, 6, 10>>]
      [] s = "2025-06-08" -> [ok |-> TRUE, val |-> <<2025, 6, 8>>]
      [] s = "2025-06-12" -> [ok |-> TRUE, val |-> <<2025, 6, 12>>]
      [] s = "2025-02-28" -> [ok |-> TRUE, val |-> <<2025, 2, 28>>]
      [] s = "2025-07-10" -> [ok |-> TRUE, val |-> <<2025, 7, 10>>]
      [] s = "2026-01-31" -> [ok |-> TRUE, val |-> <<2026, 1, 31>>]
      [] OTHER            -> [ok |-> FALSE, val |-> None]

DAY_MAP == [d \in {"MO", "TU", "WE", "TH", "FR", "SA", "SU"} |->
    CASE d = "MO" -> 0 [] d = "TU" -> 1 [] d = "WE" -> 2 [] d = "TH" -> 3
      [] d = "FR" -> 4 [] d = "SA" -> 5 [] d = "SU" -> 6]

----------------------------------------------------------------------------
(* parse_recurrence_rule                                                   *)

\* the dict built by the loop over rule.split(";"): a later segment with
\* the same key replaces an earlier one
RECURSIVE SplitParts(_, _)
SplitParts(segments, parts) ==
    IF segments = <<>> THEN parts
    ELSE LET seg == Head(segments)
             key == Upper(Strip(seg.key))
         IN  SplitParts(Tail(segments),
                IF seg.eq
                THEN [k \in (DOMAIN parts) \cup {key} |->
                        IF k = key THEN Strip(seg.value) ELSE parts[k]]
                ELSE parts)

EmptyParts == [k \in {} |-> ""]

\* [d.strip() for d in value.split(",") if d.strip()]
RECURSIVE StripNonEmpty(_)
StripNonEmpty(items) ==
    IF items = <<>> THEN <<>>
    ELSE IF Strip(Head(items)) # ""
         THEN <<Strip(Head(items))>> \o StripNonEmpty(Tail(items))
         ELSE StripNonEmpty(Tail(items))

NoConfig == [freq |-> "", by_day |-> None, by_month_day |-> None, until |-> None]

\* the parser with freq = "DAILY" for a FREQ value that is none of DAILY,
\* WEEKLY and MONTHLY
ParseDefaultingFreq(r) ==
    LET parts == SplitParts(r, EmptyParts)
        has(k) == k \in DOMAIN parts
        freq == IF has("FREQ") /\ parts["FREQ"] \in {"DAILY", "WEEKLY", "MONTHLY"}
                THEN parts["FREQ"] ELSE "DAILY"
        by_day == IF has("BYDAY")
                  THEN <<StripNonEmpty(SplitComma(parts["BYDAY"]))>> ELSE None
        md == IF has("BYMONTHDAY") THEN ParseInt(parts["BYMONTHDAY"])
              ELSE [ok |-> TRUE, val |-> 0]
        un == IF has("UNTIL") THEN FromIsoFormat(parts["UNTIL"])
              ELSE [ok |-> TRUE, val |-> None]
    IN  IF ~md.ok \/ ~un.ok
        THEN [ok |-> FALSE, exc |-> "ValueError", config |-> NoConfig]
        ELSE [ok |-> TRUE, exc |-> "",
              config |-> [freq |-> freq,
                          by_day |-> by_day,
                          by_month_day |-> IF has("BYMONTHDAY") THEN <<md.val>> ELSE None,
                          until |-> un.val]]

\* the parser with a malformed UNTIL taken as no UNTIL
ParseLenientUntil(r) ==
    LET parts == SplitParts(r, EmptyParts)
        has(k) == k \in DOMAIN parts
        freq == IF has("FREQ") THEN parts["FREQ"] ELSE "DAILY"
        by_day == IF has("BYDAY")
                  THEN <<StripNonEmpty(SplitComma(parts["BYDAY"]))>> ELSE None
        md == IF has("BYMONTHDAY") THEN ParseInt(parts["BYMONTHDAY"])
              ELSE [ok |-> TRUE, val |-> 0]
        un == IF has("UNTIL") /\ FromIsoFormat(parts["UNTIL"]).ok
              THEN FromIsoFormat(parts["UNTIL"])
              ELSE [ok |-> TRUE, val |-> None]
    IN  IF ~md.ok
        THEN [ok |-> FALSE, exc |-> "ValueError", config |-> NoConfig]
        ELSE [ok |-> TRUE, exc |-> "",
              config |-> [freq |-> freq,
                          by_day |-> by_day,
                          by_month_day |-> IF has("BYMONTHDAY") THEN <<md.val>> ELSE None,
                          until |-> un.val]]

\* the RecurrenceConfig, or the ValueError raised by int() or fromisoformat()
parse_recurrence_rule(r) ==
    LET parts == SplitParts(r, EmptyParts)
        has(k) == k \in DOMAIN parts
        freq == IF has("FREQ") THEN parts["FREQ"] ELSE "DAILY"
        by_day == IF has("BYDAY")
                  THEN <<StripNonEmpty(SplitComma(parts["BYDAY"]))>> ELSE None
        md == IF has("BYMONTHDAY") THEN ParseInt(parts["BYMONTHDAY"])
              ELSE [ok |-> TRUE, val |-> 0]
        un == IF has("UNTIL") THEN FromIsoFormat(parts["UNTIL"])
              ELSE [ok |-> TRUE, val |-> None]
    IN  IF ~md.ok \/ ~un.ok
        THEN [ok |-> FALSE, exc |-> "ValueError", config |-> NoConfig]
        ELSE [ok |-> TRUE, exc |-> "",
              config |-> [freq |-> freq,
                          by_day |-> by_day,
                          by_month_day |-> IF has("BYMONTHDAY") THEN <<md.val>> ELSE None,
                          until |-> un.val]]

----------------------------------------------------------------------------
(* compute_next_due_date                                                   *)

DateResult(d) == [kind |-> "date", date |-> d, exc |-> ""]

NoneResult == [kind |-> "none", date |-> None, exc |-> ""]

Raised(e) == [kind |-> "error", date |-> None, exc |-> e]

\* insertion into an ascending list, the step of sorted()
RECURSIVE InsertSorted(_, _)
InsertSorted(x, xs) ==
    IF xs = <<>> THEN <<x>>
    ELSE IF x <= Head(xs) THEN <<x>> \o xs
         ELSE <<Head(xs)>> \o InsertSorted(x, Tail(xs))

RECURSIVE Sorted(_)
Sorted(xs) == IF xs = <<>> THEN <<>> ELSE InsertSorted(Head(xs), Sorted(Tail(xs)))

\* (DAY_MAP[d] for d in config.by_day if d in DAY_MAP)
RECURSIVE KnownOrdinals(_)
KnownOrdinals(codes) ==
    IF codes = <<>> THEN <<>>
    ELSE IF Head(codes) \in DOMAIN DAY_MAP
         THEN <<DAY_MAP[Head(codes)]>> \o KnownOrdinals(Tail(codes))
         ELSE KnownOrdinals(Tail(codes))

TargetDays(codes) == Sorted(KnownOrdinals(codes))

\* the for loop breaking on target >= current_weekday
RECURSIVE FirstTargetFrom(_, _)
FirstTargetFrom(target_days, current_weekday) ==
    IF target_days = <<>> THEN None
    ELSE IF Head(target_days) >= current_weekday THEN <<Head(target_days)>>
         ELSE FirstTargetFrom(Tail(target_days), current_weekday)

\* the for loop: the first target of the list greater than the weekday,
\* as <<target>>, or None when the loop ends without a break
RECURSIVE FirstTargetAfter(_, _)
FirstTargetAfter(target_days, current_weekday) ==
    IF target_days = <<>> THEN None
    ELSE IF Head(target_days) > current_weekday THEN <<Head(target_days)>>
         ELSE FirstTargetAfter(Tail(target_days), current_weekday)

\* the WEEKLY branch going to the Monday of the next week when no day is
\* configured
WeeklyNextToMonday(config, base) ==
    IF config.by_day # None /\ config.by_day[1] # <<>>
    THEN LET target_days == TargetDays(config.by_day[1])
             current_weekday == Weekday(base)
             found == FirstTargetAfter(target_days, current_weekday)
         IN  IF found # None
             THEN DateResult(AddDays(base, found[1] - current_weekday))
             ELSE IF target_days = <<>>
                  THEN Raised("IndexError")
                  ELSE DateResult(AddDays(base, 7 - current_weekday + target_days[1]))
    ELSE DateResult(AddDays(base, 7 - Weekday(base)))

\* the WEEKLY branch
WeeklyNext(config, base) ==
    IF config.by_day # None /\ config.by_day[1] # <<>>
    THEN LET target_days == TargetDays(config.by_day[1])
             current_weekday == Weekday(base)
             found == FirstTargetAfter(target_days, current_weekday)
         IN  IF found # None
             THEN DateResult(AddDays(base, found[1] - current_weekday))
             ELSE IF target_days = <<>>
                  THEN Raised("IndexError")
                  ELSE DateResult(AddDays(base, 7 - current_weekday + target_days[1]))
    ELSE DateResult(AddDays(base, 7))

\* the month after the base's
NextMonth(base) ==
    IF base[2] = 12 THEN <<base[1] + 1, 1>> ELSE <<base[1], base[2] + 1>>

Min(a, b) == IF a <= b THEN a ELSE b

\* the MONTHLY branch passing the target day to date() as it is
MonthlyNextPassThrough(config, base) ==
    LET target_day == IF config.by_month_day # None /\ config.by_month_day[1] # 0
                      THEN config.by_month_day[1] ELSE base[3]
        ym == NextMonth(base)
    IN  IF ValidDate(ym[1], ym[2], target_day)
        THEN DateResult(<<ym[1], ym[2], target_day>>)
        ELSE Raised("ValueError")

\* the MONTHLY branch keeping the day of the base when the target is too large
MonthlyNextUnclamped(config, base) ==
    LET target_day == IF config.by_month_day # None /\ config.by_month_day[1] # 0
                      THEN config.by_month_day[1] ELSE base[3]
        ym == NextMonth(base)
        max_day == MonthRange(ym[1], ym[2])
        actual_day == IF target_day <= max_day THEN target_day ELSE Min(base[3], max_day)
    IN  IF ValidDate(ym[1], ym[2], actual_day)
        THEN DateResult(<<ym[1], ym[2], actual_day>>)
        ELSE Raised("ValueError")

\* the MONTHLY branch going from the last day of a month to the last day
\* of the next when no day is configured
MonthlyNextEndOfMonth(config, base) ==
    LET ym == NextMonth(base)
        max_day == MonthRange(ym[1], ym[2])
        target_day == IF config.by_month_day # None /\ config.by_month_day[1] # 0
                      THEN config.by_month_day[1]
                      ELSE IF base[3] = MonthRange(base[1], base[2])
                           THEN max_day ELSE base[3]
        actual_day == Min(target_day, max_day)
    IN  IF ValidDate(ym[1], ym[2], actual_day)
        THEN DateResult(<<ym[1], ym[2], actual_day>>)
        ELSE Raised("ValueError")

\* the MONTHLY branch staying in the month of the base
MonthlyNextSameMonth(config, base) ==
    LET target_day == IF config.by_month_day # None /\ config.by_month_day[1] # 0
                      THEN config.by_month_day[1] ELSE base[3]
        max_day == MonthRange(base[1], base[2])
        actual_day == Min(target_day, max_day)
    IN  IF ValidDate(base[1], base[2], actual_day)
        THEN DateResult(<<base[1], base[2], actual_day>>)
        ELSE Raised("ValueError")

\* the MONTHLY branch
MonthlyNext(config, base) ==
    LET target_day == IF config.by_month_day # None /\ config.by_month_day[1] # 0
                      THEN config.by_month_day[1] ELSE base[3]
        ym == NextMonth(base)
        max_day == MonthRange(ym[1], ym[2])
        actual_day == Min(target_day, max_day)
    IN  IF ValidDate(ym[1], ym[2], actual_day)
        THEN DateResult(<<ym[1], ym[2], actual_day>>)
        ELSE Raised("ValueError")

\* the branches with any other FREQ value taken as DAILY
CandidateDefaultDaily(config, base) ==
    CASE config.freq = "WEEKLY"  -> WeeklyNext(config, base)
      [] config.freq = "MONTHLY" -> MonthlyNext(config, base)
      [] OTHER                   -> DateResult(AddDays(base, 1))

\* the branches with DAILY taken as a step of one week
CandidateDailyWeek(config, base) ==
    CASE config.freq = "DAILY"   -> DateResult(AddDays(base, 7))
      [] config.freq = "WEEKLY"  -> WeeklyNext(config, base)
      [] config.freq = "MONTHLY" -> MonthlyNext(config, base)
      [] OTHER                   -> NoneResult

\* the date computed before the UNTIL clause is looked at
Candidate(config, base) ==
    CASE config.freq = "DAILY"   -> DateResult(AddDays(base, 1))
      [] config.freq = "WEEKLY"  -> WeeklyNext(config, base)
      [] config.freq = "MONTHLY" -> MonthlyNext(config, base)
      [] OTHER                   -> NoneResult

\* no UNTIL clause
CheckUntilNever(config, next) == next

\* the UNTIL clause with next_date >= config.until
CheckUntilInclusive(config, next) ==
    IF next.kind = "date" /\ config.until # None
       /\ (DateGT(next.date, config.until) \/ next.date = config.until)
    THEN NoneResult
    ELSE next

\* the UNTIL clause
CheckUntil(config, next) ==
    IF next.kind = "date" /\ config.until # None /\ DateGT(next.date, config.until)
    THEN NoneResult
    ELSE next

\* the calculator counting from today whatever current_due is
ComputeFromToday(due, r, today) ==
    LET parsed == parse_recurrence_rule(r)
    IN  IF ~parsed.ok THEN Raised(parsed.exc)
        ELSE CheckUntil(parsed.config, Candidate(parsed.config, today))

\* today is date.today(), read when current_due is None
compute_next_due_date(due, r, today) ==
    LET parsed == parse_recurrence_rule(r)
        base == IF due # None THEN due ELSE today
    IN  IF ~parsed.ok THEN Raised(parsed.exc)
        ELSE CheckUntil(parsed.config, Candidate(parsed.config, base))

----------------------------------------------------------------------------
(* Inputs of the calculator                                                *)

\* number of days after each window start that the reference dates cover
CalcSpan == 45

CalcWindowStarts == {<<2024, 1, 15>>, <<2024, 12, 20>>, <<2025, 5, 20>>}

CalcDates == {AddDays(s, k) : s \in CalcWindowStarts, k \in 0..CalcSpan}

\* 2025-06-09T00:00 and 2025-06-10T15:00 (a Monday and a Tuesday)
CalcNows == {Midnight(<<2025, 6, 9>>), Midnight(<<2025, 6, 10>>) + 15}

FreqOpts ==
    { <<>>, <<Seg("FREQ", "DAILY")>>, <<Seg("FREQ", "WEEKLY")>>,
      <<Seg("FREQ", "MONTHLY")>>, <<Seg("FREQ", "YEARLY")>>,
      <<Seg("freq", " WEEKLY")>>, <<Seg("FREQ", "weekly")>> }

ByDayOpts ==
    { <<>>, <<Seg("BYDAY", "MO,WE,FR")>>, <<Seg("BYDAY", "SU")>>,
      <<Seg("BYDAY", "FR,XX,MO")>>, <<Seg("BYDAY", "XX")>>,
      <<Seg("BYDAY", "TU,TU")>>, <<Seg("byday", "SA, MO,")>>,
      <<Seg("BYDAY", "XX,mo")>>, <<Seg("BYDAY", "")>> }

MonthDayOpts ==
    { <<>>, <<Seg("BYMONTHDAY", "31")>>, <<Seg("BYMONTHDAY", "30")>>,
      <<Seg("BYMONTHDAY", "15")>>, <<Seg("BYMONTHDAY", "1")>>,
      <<Seg("BYMONTHDAY", "35")>>, <<Seg("BYMONTHDAY", "0")>>,
      <<Seg("BYMONTHDAY", "-1")>>, <<Seg("BYMONTHDAY", "abc")>> }

UntilOpts ==
    { <<>>, <<Seg("UNTIL", "2025-06-10")>>, <<Seg("UNTIL", "2025-06-08")>>,
      <<Seg("until", "2025-02-28")>>, <<Seg("UNTIL", "2026-01-31")>>,
      <<Seg("UNTIL", "2025-13-01")>> }

CalcRules ==
    {f \o u : f \in FreqOpts, u \in UntilOpts}
    \cup {<<Seg("FREQ", "WEEKLY")>> \o b \o u : b \in ByDayOpts, u \in UntilOpts}
    \cup {<<Seg("FREQ", "MONTHLY")>> \o m \o u : m \in MonthDayOpts, u \in UntilOpts}
    \cup { <<Bare("")>>,
           <<Bare("FREQ"), Seg("BYDAY", "MO,WE,FR")>>,
           <<Seg("FREQ", "DAILY"), Seg("FREQ", "WEEKLY")>>,
           <<Seg("FREQ", "MONTHLY"), Seg("BYDAY", "SU")>>,
           <<Seg("FREQ", "YEARLY"), Seg("BYMONTHDAY", "abc")>>,
           <<Seg("FREQ", "DAILY"), Seg("BYMONTHDAY", "-1"), Seg("COUNT", "3")>> }

----------------------------------------------------------------------------
(* The calculator applied to one input                                     *)

calcVars == <<current_due, rule, result, pc, now, tasks, reminders, dirty, ids,
              origin, response, ops>>

InitCalc ==
    /\ tasks = <<>> /\ reminders = <<>> /\ dirty = <<>> /\ origin = <<>>
    /\ ids = [task |-> 1, reminder |-> 1, group |-> 1]
    /\ response = [op |-> "", user |-> "", task |-> 0, status |-> "", next |-> 0]
    /\ ops = 0
    /\ current_due \in CalcDates \cup {None}
    /\ rule \in CalcRules
    /\ now \in CalcNows
    /\ result = NoneResult
    /\ pc = "call"

Compute ==
    /\ pc = "call"
    /\ result' = compute_next_due_date(current_due, rule, Today(now))
    /\ pc' = "done"
    /\ UNCHANGED <<current_due, rule, now>>
    /\ UNCHANGED <<tasks, reminders, dirty, ids, origin, response, ops>>

NextCalc == Compute

SpecCalc == InitCalc /\ [][NextCalc]_calcVars

----------------------------------------------------------------------------
(* A chain of occurrences: each occurrence is computed from the due date   *)
(* of the one before, as generate_next_instance does with due_date =       *)
(* next_due for the task it builds                                         *)

\* days after 2024-01-15 up to which a chain is followed
MaxHorizon == 775

ChainHorizon == ToOrdinal(<<2024, 1, 15>>) + MaxHorizon

\* the occurrence with the computed due date is completed in its turn: the
\* calculator is called on its due date with the same rule
Recur ==
    /\ pc = "done" /\ result.kind = "date"
    /\ ToOrdinal(result.date) <= ChainHorizon
    /\ current_due' = result.date
    /\ result' = NoneResult
    /\ pc' = "call"
    /\ UNCHANGED <<rule, now, tasks, reminders, dirty, ids, origin, response, ops>>

NextChain == Compute \/ Recur

SpecChain == InitCalc /\ [][NextChain]_calcVars

\* no task has been completed yet
InitPick ==
    /\ tasks = <<>> /\ reminders = <<>> /\ dirty = <<>> /\ origin = <<>>
    /\ ids = [task |-> 1, reminder |-> 1, group |-> 1]
    /\ response = [op |-> "", user |-> "", task |-> 0, status |-> "", next |-> 0]
    /\ ops = 0
    /\ current_due = None
    /\ rule = <<>>
    /\ now = Midnight(<<2025, 6, 9>>)
    /\ result = NoneResult
    /\ pc = "pick"

\* a task with some due date and rule is completed at some time: the first
\* call of a chain
Pick ==
    /\ pc = "pick"
    /\ current_due' \in CalcDates \cup {None}
    /\ rule' \in CalcRules
    /\ now' \in CalcNows
    /\ pc' = "call"
    /\ UNCHANGED <<result, tasks, reminders, dirty, ids, origin, response, ops>>

NextFair == Pick \/ Compute \/ Recur

\* the step of Compute, which can be taken whenever a call is pending
Returns == pc = "call" /\ pc' = "done"

\* the step of Recur, which can be taken whenever a date within the horizon
\* has been returned
Again ==
    /\ pc = "done" /\ result.kind = "date"
    /\ ToOrdinal(result.date) <= ChainHorizon
    /\ pc' = "call"

\* every call returns, and the newest occurrence of a chain is completed
\* again and again
FairChain == InitPick /\ [][NextFair]_calcVars /\ WF_pc(Returns) /\ WF_pc(Again)

----------------------------------------------------------------------------
(* Tasks, reminders and the instance generator                             *)

PENDING == "pending"

TRIGGERED == "triggered"

CANCELLED == "cancelled"

\* truth value of an Optional[str] tested with "is not None"
IsNotNone(opt_rule) == opt_rule # None

\* truth value of an Optional[str]: None and "" are false
Truthy(opt_rule) == opt_rule # None /\ opt_rule[1] # <<Bare("")>>

\* Task(...): the fields the constructor call sets; completed defaults to
\* False, recurrence_group_id to None
NewTask(title, description, user_id, priority, tags, due_date, recurrence_rule) ==
    [title |-> title, description |-> description, user_id |-> user_id,
     priority |-> priority, tags |-> tags, due_date |-> due_date,
     recurrence_rule |-> recurrence_rule, recurrence_group_id |-> None,
     completed |-> FALSE]

NoTask == NewTask("", None, "", "", <<>>, None, None)

NewReminder(task_id, user_id, trigger_at) ==
    [task_id |-> task_id, user_id |-> user_id, trigger_at |-> trigger_at,
     status |-> PENDING]

\* select(Reminder).where(Reminder.task_id == task_id), in id order
\* the same query with a filter on the status
PendingRemindersOf(rems, task_id) ==
    {r \in DOMAIN rems : rems[r].task_id = task_id /\ rems[r].status = PENDING}

RemindersOf(rems, task_id) == {r \in DOMAIN rems : rems[r].task_id = task_id}

\* recurrence_group_id=task.recurrence_group_id or uuid4()
GroupIdFor(task, fresh_gid) ==
    IF task.recurrence_group_id # None THEN task.recurrence_group_id
    ELSE <<fresh_gid>>

\* the Task(...) built with the completed flag of the parent
SuccessorAsParent(task, next_due, fresh_gid) ==
    [title |-> task.title,
     description |-> task.description,
     user_id |-> task.user_id,
     priority |-> task.priority,
     tags |-> IF task.tags # <<>> THEN task.tags ELSE <<>>,
     due_date |-> next_due,
     recurrence_rule |-> task.recurrence_rule,
     recurrence_group_id |-> GroupIdFor(task, fresh_gid),
     completed |-> task.completed]

\* the Task(...) built for the next occurrence
SuccessorTask(task, next_due, fresh_gid) ==
    [title |-> task.title,
     description |-> task.description,
     user_id |-> task.user_id,
     priority |-> task.priority,
     tags |-> IF task.tags # <<>> THEN task.tags ELSE <<>>,
     due_date |-> next_due,
     recurrence_rule |-> task.recurrence_rule,
     recurrence_group_id |-> GroupIdFor(task, fresh_gid),
     completed |-> FALSE]

\* new_trigger of one parent reminder
NewTrigger(task, next_due, r) ==
    LET due_dt == Midnight(task.due_date)
        offset == due_dt - r.trigger_at
    IN  Midnight(next_due) - offset

\* the parent reminder is cloned when new_trigger >= datetime.utcnow()
InheritsAtClock(task, next_due, r, clock) ==
    task.due_date # None /\ NewTrigger(task, next_due, r) >= clock

\* the parent reminder is cloned
Inherits(task, next_due, r, clock) ==
    task.due_date # None /\ NewTrigger(task, next_due, r) > clock

\* the reminders added for the parent reminders with ids in rids, in id
\* order
RECURSIVE ClonedReminders(_, _, _, _, _, _)
ClonedReminders(task, new_id, next_due, rems, rids, clock) ==
    IF rids = {} THEN <<>>
    ELSE LET rid == CHOOSE x \in rids : \A y \in rids : x <= y
             rest == ClonedReminders(task, new_id, next_due, rems, rids \ {rid}, clock)
         IN  IF Inherits(task, next_due, rems[rid], clock)
             THEN <<NewReminder(new_id, task.user_id,
                                NewTrigger(task, next_due, rems[rid]))>> \o rest
             ELSE rest

NoGenerated == [kind |-> "none", exc |-> "", task |-> NoTask, reminders |-> <<>>]

\* generate_next_instance(task, session): what it returns or raises, and
\* the task and reminders it adds to the session.  rems is the session's
\* view of table reminders, new_id the id of the Task object it builds
generate_next_instance(task, task_id, rems, clock, new_id, fresh_gid) ==
    IF ~Truthy(task.recurrence_rule) THEN NoGenerated
    ELSE LET next_due == compute_next_due_date(task.due_date,
                              task.recurrence_rule[1], Today(clock))
         IN  CASE next_due.kind = "error" ->
                    [NoGenerated EXCEPT !.kind = "error", !.exc = next_due.exc]
               [] next_due.kind = "none" -> NoGenerated
               [] OTHER ->
                    [kind |-> "task", exc |-> "",
                     task |-> SuccessorTask(task, next_due.date, fresh_gid),
                     reminders |-> ClonedReminders(task, new_id, next_due.date,
                                      rems, RemindersOf(rems, task_id), clock)]

----------------------------------------------------------------------------
(* Sessions                                                                *)

\* a database state as a session sees or commits it
Db(t, r) == [tasks |-> t, reminders |-> r]

NoOverlay(u) ==
    [user |-> u, title |-> None, description |-> None, priority |-> None,
     tags |-> None]

\* a Task row with the attributes set on its session object
WithOverlay(task, ov) ==
    [task EXCEPT
        !.title = IF ov.title # None THEN ov.title[1] ELSE @,
        !.description = IF ov.description # None THEN ov.description ELSE @,
        !.priority = IF ov.priority # None THEN ov.priority[1] ELSE @,
        !.tags = IF ov.tags # None THEN ov.tags[1] ELSE @]

\* the Task objects with unflushed attributes in the chat session of user u
DirtyOf(u) == {id \in DOMAIN dirty : dirty[id].user = u}

\* the flush of the chat session of u updates a row that is gone
FlushFails(u) == \E id \in DirtyOf(u) : id \notin DOMAIN tasks

\* table tasks as the chat session of u sees it after its autoflush
Flushed(u) ==
    [id \in DOMAIN tasks |->
        IF id \in DirtyOf(u) THEN WithOverlay(tasks[id], dirty[id]) ELSE tasks[id]]

\* the chat session of u after commit or rollback: nothing is pending
Cleared(u) == [id \in (DOMAIN dirty) \ DirtyOf(u) |-> dirty[id]]

\* the except clause without rollback: the pending state is flushed by the
\* commit of the next tool call
NoRollback(committed, pending) == pending

\* await context.session.rollback(): the pending state is dropped
Rollback(committed, pending) == committed

\* await session.commit(): the pending state becomes the committed one
Commit(committed, pending) == pending

\* a request session closed after the handler raised: no commit was reached
CloseAfterError(committed, pending) == committed

\* the lookup by id alone
FoundAnyUser(t, task_id, user_id) == task_id \in DOMAIN t

\* select(Task).where(Task.id == task_id, Task.user_id == user_id)
Found(t, task_id, user_id) == task_id \in DOMAIN t /\ t[task_id].user_id = user_id

\* every reminder of the task becomes cancelled
CancelAll(rems, task_id) ==
    [r \in DOMAIN rems |->
        IF rems[r].task_id = task_id
        THEN [rems[r] EXCEPT !.status = CANCELLED] ELSE rems[r]]

\* the pending reminders of the task become cancelled
CancelPending(rems, task_id) ==
    [r \in DOMAIN rems |->
        IF rems[r].task_id = task_id /\ rems[r].status = PENDING
        THEN [rems[r] EXCEPT !.status = CANCELLED] ELSE rems[r]]

\* a generator that hands the rows of the first reminders over to the new
\* task instead of adding rows
AddGeneratedReusing(db, gen, i) ==
    LET n == Len(gen.reminders)
    IN  Db(db.tasks @@ (i.task :> gen.task),
           [k \in 1..n |-> gen.reminders[k]] @@ db.reminders)

\* session.add(new_task) and session.add(new_reminder) of the generator:
\* the objects get the next fresh ids
AddGenerated(db, gen, i) ==
    LET n == Len(gen.reminders)
    IN  Db(db.tasks @@ (i.task :> gen.task),
           db.reminders @@ [k \in i.reminder..(i.reminder + n - 1) |->
                               gen.reminders[k - i.reminder + 1]])

\* the fresh ids left after a completion that ran the generator on task
IdsAfter(i, task, gen) ==
    IF gen.kind = "task"
    THEN [task |-> i.task + 1,
          reminder |-> i.reminder + Len(gen.reminders),
          group |-> IF task.recurrence_group_id = None THEN i.group + 1 ELSE i.group]
    ELSE i

\* next is the id of the generated task, 0 when there is none
Resp(op, user, task_id, status, next) ==
    [op |-> op, user |-> user, task |-> task_id, status |-> status, next |-> next]

----------------------------------------------------------------------------
(* Bounds and inputs of the operations                                     *)

\* tasks ever stored (created or generated)
MaxTasks == 3

\* reminders ever stored (created or cloned)
MaxReminders == 2

\* advances of the clock
MaxTicks == 1

\* requests and tool calls served
MaxOps == 3

Users == {"alice", "bob"}

\* 2025-06-09T08:00
StartOfTime == Midnight(<<2025, 6, 9>>) + 8

DailyRule == <<Seg("FREQ", "DAILY")>>

DailyUntilRule == <<Seg("FREQ", "DAILY"), Seg("UNTIL", "2025-06-12")>>

YearlyRule == <<Seg("FREQ", "YEARLY")>>

UnknownDaysRule == <<Seg("FREQ", "WEEKLY"), Seg("BYDAY", "XX")>>

\* an unrecognized FREQ value with an UNTIL that is no date
YearlyBadUntilRule == <<Seg("FREQ", "YEARLY"), Seg("UNTIL", "2025-13-01")>>

\* a DAILY rule with an UNTIL that is no date
DailyBadUntilRule == <<Seg("FREQ", "DAILY"), Seg("UNTIL", "2025-13-01")>>

Body(title, description, priority, tags, due_date, recurrence_rule) ==
    [title |-> title, description |-> description, priority |-> priority,
     tags |-> tags, due_date |-> due_date, recurrence_rule |-> recurrence_rule]

\* the tasks the database may hold at the start: the user and the
\* TaskCreate body of the POST request that stored it
StoredAtStart ==
    { <<"alice", Body("b", <<"d">>, "high", <<"work">>, <<2025, 6, 10>>, <<DailyRule>>)>>,
      <<"alice", Body("a", None, "none", <<>>, <<2025, 6, 10>>, <<DailyUntilRule>>)>>,
      <<"alice", Body("a", None, "none", <<>>, <<2025, 6, 10>>, <<YearlyRule>>)>>,
      <<"alice", Body("a", None, "none", <<>>, <<2025, 6, 10>>, <<YearlyBadUntilRule>>)>>,
      <<"alice", Body("a", None, "none", <<>>, None, <<DailyRule>>)>>,
      <<"alice", Body("a", None, "none", <<"work">>, <<2025, 6, 10>>, None)>>,
      <<"alice", Body("a", None, "none", <<>>, None, <<<<Bare("")>>>>)>> }

\* POST requests: the user and the TaskCreate body
CreateRequests ==
    { <<"alice", Body("a", None, "none", <<>>, <<2025, 6, 10>>, None)>>,
      <<"bob", Body("b", <<"d">>, "high", <<"work">>, <<2025, 6, 10>>, <<DailyRule>>)>> }

\* TaskUpdate bodies (PUT): every field is given
PutBodies ==
    { [title |-> "a", description |-> None, completed |-> TRUE, priority |-> "none",
       tags |-> <<>>, due_date |-> <<2025, 6, 10>>, recurrence_rule |-> <<DailyRule>>],
      [title |-> "a", description |-> None, completed |-> FALSE, priority |-> "none",
       tags |-> <<>>, due_date |-> None, recurrence_rule |-> None] }

NoPatch ==
    [title |-> None, description |-> None, priority |-> None, tags |-> None,
     due_date |-> None, recurrence_rule |-> None, completed |-> None]

\* TaskPatch bodies (PATCH): None is a field that is not given
PatchBodies ==
    { [NoPatch EXCEPT !.completed = <<TRUE>>],
      [NoPatch EXCEPT !.completed = <<FALSE>>],
      [NoPatch EXCEPT !.recurrence_rule = <<DailyRule>>],
      [NoPatch EXCEPT !.title = <<"b">>, !.priority = <<"high">>,
                      !.description = <<"d">>, !.tags = <<<<"work">>>>,
                      !.due_date = <<2025, 6, 11>>, !.completed = <<TRUE>>] }

----------------------------------------------------------------------------
(* REST operations on tasks (routers/tasks.py)                             *)

sysVars == <<now, tasks, reminders, dirty, ids, origin, response>>

vars == <<current_due, rule, result, pc, now, tasks, reminders, dirty, ids,
          origin, response, ops>>

calcIdle == UNCHANGED <<current_due, rule, result, pc>>

\* the Task that create_task stores: a recurring one gets a fresh group id
CreatedTask(u, body, fresh_gid) ==
    LET new_task == NewTask(body.title, body.description, u, body.priority,
                            body.tags, body.due_date, body.recurrence_rule)
    IN  IF Truthy(body.recurrence_rule)
        THEN [new_task EXCEPT !.recurrence_group_id = <<fresh_gid>>]
        ELSE new_task

\* POST /{user_id}/tasks
create_task(u, body) ==
    /\ ids.task <= MaxTasks
    /\ LET grouped == CreatedTask(u, body, ids.group)
       IN  /\ tasks' = tasks @@ (ids.task :> grouped)
           /\ ids' = [ids EXCEPT !.task = @ + 1,
                        !.group = IF Truthy(body.recurrence_rule) THEN @ + 1 ELSE @]
           /\ response' = Resp("create_task", u, ids.task, "201", 0)
    /\ UNCHANGED <<now, reminders, dirty, origin>>
    /\ calcIdle

\* PUT /{user_id}/tasks/{task_id}
update_task_full(u, id, body) ==
    /\ IF ~Found(tasks, id, u)
       THEN /\ response' = Resp("update_task_full", u, 0, "404", 0)
            /\ UNCHANGED tasks
       ELSE /\ tasks' = [tasks EXCEPT ![id] =
                   [@ EXCEPT !.title = body.title,
                             !.description = body.description,
                             !.completed = body.completed,
                             !.priority = body.priority,
                             !.tags = body.tags,
                             !.due_date = body.due_date,
                             !.recurrence_rule = body.recurrence_rule]]
            /\ response' = Resp("update_task_full", u, id, "200", 0)
    /\ UNCHANGED <<now, reminders, dirty, ids, origin>>
    /\ calcIdle

\* the fields of a PATCH body other than completed, applied to the task
Patched(task, body) ==
    [task EXCEPT
        !.title = IF body.title # None THEN body.title[1] ELSE @,
        !.description = IF body.description # None THEN body.description ELSE @,
        !.priority = IF body.priority # None THEN body.priority[1] ELSE @,
        !.tags = IF body.tags # None THEN body.tags[1] ELSE @,
        !.due_date = IF body.due_date # None THEN body.due_date ELSE @,
        !.recurrence_rule = IF body.recurrence_rule # None
                            THEN body.recurrence_rule ELSE @]

\* a PATCH handler that makes the cancelled reminders of a task pending
\* again when the task is set back to not completed
PatchSessionRestoring(id, body, clock, i) ==
    LET t1 == Patched(tasks[id], body)
        completing == body.completed # None /\ body.completed[1]
        t2 == IF body.completed # None
              THEN [t1 EXCEPT !.completed = body.completed[1]] ELSE t1
        rems == IF completing THEN CancelPending(reminders, id)
                ELSE IF body.completed # None
                     THEN [r \in DOMAIN reminders |->
                             IF reminders[r].task_id = id /\ reminders[r].status = CANCELLED
                             THEN [reminders[r] EXCEPT !.status = PENDING]
                             ELSE reminders[r]]
                     ELSE reminders
        gen == IF completing /\ Truthy(t2.recurrence_rule)
               THEN generate_next_instance(t2, id, rems, clock, i.task, i.group)
               ELSE NoGenerated
        db == Db([tasks EXCEPT ![id] = t2], rems)
    IN  [exc |-> gen.exc, gen |-> gen, task |-> t2,
         db |-> IF gen.kind = "task" THEN AddGenerated(db, gen, i) ELSE db]

\* what the PATCH handler has in its session when it reaches commit, or the
\* exception that ends it: [exc, db, gen]
PatchSession(id, body, clock, i) ==
    LET t1 == Patched(tasks[id], body)
        completing == body.completed # None /\ body.completed[1]
        t2 == IF body.completed # None
              THEN [t1 EXCEPT !.completed = body.completed[1]] ELSE t1
        rems == IF completing THEN CancelPending(reminders, id) ELSE reminders
        gen == IF completing /\ Truthy(t2.recurrence_rule)
               THEN generate_next_instance(t2, id, rems, clock, i.task, i.group)
               ELSE NoGenerated
        db == Db([tasks EXCEPT ![id] = t2], rems)
    IN  [exc |-> gen.exc, gen |-> gen, task |-> t2,
         db |-> IF gen.kind = "task" THEN AddGenerated(db, gen, i) ELSE db]

\* the generator has fresh ids left for what it adds
Room(gen) ==
    gen.kind = "task" =>
        /\ ids.task <= MaxTasks
        /\ ids.reminder + Len(gen.reminders) - 1 <= MaxReminders

\* PATCH /{user_id}/tasks/{task_id}
update_task_partial(u, id, body) ==
    /\ IF ~Found(tasks, id, u)
       THEN /\ response' = Resp("update_task_partial", u, 0, "404", 0)
            /\ UNCHANGED <<tasks, reminders, ids, origin>>
       ELSE \E s \in {PatchSession(id, body, now, ids)} :
            LET committed == Db(tasks, reminders)
                after == IF s.exc # "" THEN CloseAfterError(committed, s.db)
                         ELSE Commit(committed, s.db)
                stored == s.exc = "" /\ s.gen.kind = "task"
            IN  /\ Room(s.gen)
                /\ tasks' = after.tasks
                /\ reminders' = after.reminders
                /\ ids' = IF s.exc = "" THEN IdsAfter(ids, s.task, s.gen) ELSE ids
                /\ origin' = IF stored THEN origin @@ (ids.task :> id) ELSE origin
                /\ response' = Resp("update_task_partial", u, id,
                                    IF s.exc # "" THEN "500" ELSE "200",
                                    IF stored THEN ids.task ELSE 0)
    /\ UNCHANGED <<now, dirty>>
    /\ calcIdle

\* DELETE /{user_id}/tasks/{task_id}: the reminders go with the task
delete_task(u, id) ==
    /\ IF ~Found(tasks, id, u)
       THEN /\ response' = Resp("delete_task", u, 0, "404", 0)
            /\ UNCHANGED <<tasks, reminders>>
       ELSE /\ tasks' = [k \in (DOMAIN tasks) \ {id} |-> tasks[k]]
            /\ reminders' = [r \in (DOMAIN reminders) \ RemindersOf(reminders, id) |->
                                reminders[r]]
            /\ response' = Resp("delete_task", u, id, "204", 0)
    /\ UNCHANGED <<now, dirty, ids, origin>>
    /\ calcIdle

----------------------------------------------------------------------------
(* Chat tools (chat/tools.py).  The tools of one user share the session of *)
(* their ToolContext.                                                      *)

\* normalize_tags on the tag lists that occur in the parameters below
normalize_tags(tag_list) ==
    CASE tag_list = <<"Work ">> -> <<"work">>
      [] tag_list = <<"!">>     -> <<>>
      [] OTHER                  -> tag_list

ValidPriorities == {"none", "low", "medium", "high", "urgent"}

NoParams ==
    [title |-> None, description |-> None, priority |-> None, tags |-> None,
     due_date |-> None]

\* update_task parameters: None is a parameter that is not given
UpdateParams ==
    { NoParams,
      [NoParams EXCEPT !.title = <<" b">>, !.priority = <<"bogus">>],
      [NoParams EXCEPT !.priority = <<"high">>, !.tags = <<<<"Work ">>>>,
                       !.due_date = <<"next week">>],
      [NoParams EXCEPT !.description = <<"d">>, !.due_date = <<"2025-06-12">>] }

\* the attributes update_task has set on the Task object when it returns
\* VALIDATION_ERROR for the priority (stage 1) or the due date (stage 2)
SetBeforeError(ov, params, stage) ==
    [ov EXCEPT
        !.title = IF params.title # None THEN <<Strip(params.title[1])>> ELSE @,
        !.description = IF params.description # None THEN params.description ELSE @,
        !.priority = IF stage = 2 /\ params.priority # None THEN params.priority ELSE @,
        !.tags = IF stage = 2 /\ params.tags # None
                 THEN <<normalize_tags(params.tags[1])>> ELSE @]

\* update_task
update_task(u, id, params) ==
    LET nothing == \A f \in DOMAIN params : params[f] = None
        bad_title == params.title # None /\ Strip(params.title[1]) = ""
        view == Flushed(u)
        ov == IF id \in DirtyOf(u) THEN dirty[id] ELSE NoOverlay(u)
        bad_priority == params.priority # None /\ params.priority[1] \notin ValidPriorities
        due == IF params.due_date # None THEN FromIsoFormat(params.due_date[1])
               ELSE [ok |-> TRUE, val |-> None]
        updated == [WithOverlay(view[id], SetBeforeError(NoOverlay(u), params, 2))
                      EXCEPT !.due_date = IF params.due_date # None THEN due.val ELSE @]
    IN  /\ CASE nothing \/ bad_title ->
                    /\ response' = Resp("update_task", u, 0, "VALIDATION_ERROR", 0)
                    /\ UNCHANGED <<tasks, dirty>>
             [] ~(nothing \/ bad_title) /\ FlushFails(u) ->
                    /\ tasks' = Rollback(Db(tasks, reminders), Db(view, reminders)).tasks
                    /\ dirty' = Cleared(u)
                    /\ response' = Resp("update_task", u, id, "DATABASE_ERROR", 0)
             [] ~(nothing \/ bad_title) /\ ~FlushFails(u) /\ ~Found(view, id, u) ->
                    /\ response' = Resp("update_task", u, 0, "NOT_FOUND", 0)
                    /\ UNCHANGED <<tasks, dirty>>
             [] OTHER ->
                    IF bad_priority \/ ~due.ok
                    THEN /\ dirty' = [k \in (DOMAIN dirty) \cup {id} |->
                                IF k = id
                                THEN SetBeforeError(ov, params,
                                        IF bad_priority THEN 1 ELSE 2)
                                ELSE dirty[k]]
                         /\ response' = Resp("update_task", u, id, "VALIDATION_ERROR", 0)
                         /\ UNCHANGED tasks
                    ELSE /\ tasks' = Commit(Db(tasks, reminders),
                                       Db([view EXCEPT ![id] = updated], reminders)).tasks
                         /\ dirty' = Cleared(u)
                         /\ response' = Resp("update_task", u, id, "ok", 0)
        /\ UNCHANGED <<now, reminders, ids, origin>>
        /\ calcIdle

\* a tool without the check of the state the task is in
NeverInState(task, completed) == FALSE

\* if task.completed == completed: the task is already in the desired state
AlreadyInState(task, completed) == task.completed = completed

\* what complete_task has in its session when it reaches commit, or the
\* exception that sends it to the except clause: [exc, db, gen, task]
CompleteSession(u, id, completed, clock, i) ==
    LET view == Flushed(u)
        t2 == [view[id] EXCEPT !.completed = completed]
        rems == IF completed THEN CancelPending(reminders, id) ELSE reminders
        gen == IF completed /\ Truthy(t2.recurrence_rule)
               THEN generate_next_instance(t2, id, rems, clock, i.task, i.group)
               ELSE NoGenerated
        db == Db([view EXCEPT ![id] = t2], rems)
    IN  [exc |-> gen.exc, gen |-> gen, task |-> t2,
         db |-> IF gen.kind = "task" THEN AddGenerated(db, gen, i) ELSE db]

\* complete_task
complete_task(u, id, completed) ==
    LET view == Flushed(u)
        committed == Db(tasks, reminders)
    IN  /\ CASE FlushFails(u) ->
                    /\ tasks' = Rollback(committed, Db(view, reminders)).tasks
                    /\ dirty' = Cleared(u)
                    /\ response' = Resp("complete_task", u, id, "DATABASE_ERROR", 0)
                    /\ UNCHANGED <<reminders, ids, origin>>
             [] ~FlushFails(u) /\ ~Found(view, id, u) ->
                    /\ response' = Resp("complete_task", u, 0, "NOT_FOUND", 0)
                    /\ UNCHANGED <<tasks, reminders, dirty, ids, origin>>
             [] ~FlushFails(u) /\ Found(view, id, u)
                  /\ AlreadyInState(view[id], completed) ->
                    /\ response' = Resp("complete_task", u, id, "VALIDATION_ERROR", 0)
                    /\ UNCHANGED <<tasks, reminders, dirty, ids, origin>>
             [] OTHER ->
                    \E s \in {CompleteSession(u, id, completed, now, ids)} :
                    LET after == IF s.exc # "" THEN Rollback(committed, s.db)
                                 ELSE Commit(committed, s.db)
                        stored == s.exc = "" /\ s.gen.kind = "task"
                    IN  /\ Room(s.gen)
                        /\ tasks' = after.tasks
                        /\ reminders' = after.reminders
                        /\ dirty' = Cleared(u)
                        /\ ids' = IF s.exc = "" THEN IdsAfter(ids, s.task, s.gen) ELSE ids
                        /\ origin' = IF stored THEN origin @@ (ids.task :> id) ELSE origin
                        /\ response' = Resp("complete_task", u, id,
                                            IF s.exc # "" THEN "DATABASE_ERROR" ELSE "ok",
                                            IF stored THEN ids.task ELSE 0)
        /\ UNCHANGED now
        /\ calcIdle

----------------------------------------------------------------------------
(* Reminders (routers/reminders.py)                                        *)

\* re.match(r"^-(\d+)([dh])$", relative) on the offsets used below:
\* the hours before 09:00 of the due date, or ok = FALSE for no match
RelativeOffset(relative) ==
    CASE relative = "-1d" -> [ok |-> TRUE, hours |-> HoursPerDay]
      [] relative = "-2h" -> [ok |-> TRUE, hours |-> 2]
      [] OTHER            -> [ok |-> FALSE, hours |-> 0]

\* base - timedelta(...), base being 09:00 of the due date
RelativeTrigger(due_date, relative) ==
    Midnight(due_date) + 9 - RelativeOffset(relative).hours

\* ReminderCreate bodies: exactly one of trigger_at and relative_to_due is
\* given
ReminderBodies ==
    { [trigger_at |-> <<Midnight(<<2025, 6, 9>>) + 9>>, relative_to_due |-> None],
      [trigger_at |-> <<Midnight(<<2025, 6, 9>>) + 8>>, relative_to_due |-> None],
      [trigger_at |-> None, relative_to_due |-> <<"-2h">>],
      [trigger_at |-> None, relative_to_due |-> <<"2h">>] }

\* the trigger time of the request, or the reason it is refused
RequestedTrigger(task, body) ==
    IF body.trigger_at # None THEN [ok |-> TRUE, at |-> body.trigger_at[1]]
    ELSE IF task.due_date = None \/ ~RelativeOffset(body.relative_to_due[1]).ok
         THEN [ok |-> FALSE, at |-> 0]
         ELSE [ok |-> TRUE, at |-> RelativeTrigger(task.due_date, body.relative_to_due[1])]

\* POST /{user_id}/tasks/{task_id}/reminders
create_reminder(u, id, body) ==
    /\ ids.reminder <= MaxReminders
    /\ IF ~Found(tasks, id, u)
       THEN /\ response' = Resp("create_reminder", u, 0, "404", 0)
            /\ UNCHANGED <<reminders, ids>>
       ELSE LET trig == RequestedTrigger(tasks[id], body)
            IN  IF ~trig.ok \/ trig.at <= now
                THEN /\ response' = Resp("create_reminder", u, id, "400", 0)
                     /\ UNCHANGED <<reminders, ids>>
                ELSE /\ reminders' = reminders @@
                            (ids.reminder :> NewReminder(id, u, trig.at))
                     /\ ids' = [ids EXCEPT !.reminder = @ + 1]
                     /\ response' = Resp("create_reminder", u, id, "201", 0)
    /\ UNCHANGED <<now, tasks, dirty, origin>>
    /\ calcIdle

----------------------------------------------------------------------------
(* The environment                                                         *)

\* the reminder scheduler fires a pending reminder whose time has come
trigger_reminder(rid) ==
    /\ rid \in DOMAIN reminders
    /\ reminders[rid].status = PENDING
    /\ reminders[rid].trigger_at <= now
    /\ reminders' = [reminders EXCEPT ![rid].status = TRIGGERED]
    /\ response' = Resp("trigger_reminder", "", reminders[rid].task_id, "ok", 0)
    /\ UNCHANGED <<now, tasks, dirty, ids, origin>>
    /\ calcIdle

\* the chat request of user u ends: its session is closed
close_chat_session(u) ==
    /\ DirtyOf(u) # {}
    /\ dirty' = Cleared(u)
    /\ response' = Resp("close_chat_session", u, 0, "ok", 0)
    /\ UNCHANGED <<now, tasks, reminders, ids, origin>>
    /\ calcIdle

\* the clock advances by 25 hours
Tick ==
    /\ now < StartOfTime + MaxTicks * (HoursPerDay + 1)
    /\ now' = now + HoursPerDay + 1
    /\ response' = Resp("Tick", "", 0, "ok", 0)
    /\ UNCHANGED <<tasks, reminders, dirty, ids, origin>>
    /\ calcIdle

----------------------------------------------------------------------------
(* The task manager                                                        *)

EmptyTable == [k \in {} |-> 0]

NoResponse == Resp("", "", 0, "", 0)

\* the service starts with an empty database or with one task that a
\* POST request has stored
Init ==
    /\ now = StartOfTime
    /\ \/ /\ tasks = [k \in {} |-> NoTask]
          /\ ids = [task |-> 1, reminder |-> 1, group |-> 1]
       \/ \E req \in StoredAtStart :
            /\ tasks = (1 :> CreatedTask(req[1], req[2], 1))
            /\ ids = [task |-> 2, reminder |-> 1,
                      group |-> IF Truthy(req[2].recurrence_rule) THEN 2 ELSE 1]
    /\ reminders = [k \in {} |-> NewReminder(0, "", 0)]
    /\ dirty = [k \in {} |-> NoOverlay("")]
    /\ origin = EmptyTable
    /\ response = NoResponse
    /\ ops = 0
    /\ current_due = None
    /\ rule = <<>>
    /\ result = NoneResult
    /\ pc = "idle"

TaskIds == 1..MaxTasks

\* one more request or tool call is served
Served == ops < MaxOps /\ ops' = ops + 1

Next ==
    \/ \E req \in CreateRequests : create_task(req[1], req[2]) /\ Served
    \/ \E u \in Users, id \in TaskIds, body \in PutBodies :
            update_task_full(u, id, body) /\ Served
    \/ \E u \in Users, id \in TaskIds, body \in PatchBodies :
            update_task_partial(u, id, body) /\ Served
    \/ \E u \in Users, id \in TaskIds : delete_task(u, id) /\ Served
    \/ \E u \in Users, id \in TaskIds, params \in UpdateParams :
            update_task(u, id, params) /\ Served
    \/ \E u \in Users, id \in TaskIds, c \in BOOLEAN :
            complete_task(u, id, c) /\ Served
    \/ \E u \in Users, id \in TaskIds, body \in ReminderBodies :
            create_reminder(u, id, body) /\ Served
    \/ \E rid \in 1..MaxReminders : trigger_reminder(rid) /\ UNCHANGED ops
    \/ \E u \in Users : close_chat_session(u) /\ UNCHANGED ops
    \/ Tick /\ UNCHANGED ops

Spec == Init /\ [][Next]_vars

----------------------------------------------------------------------------
(* The generator applied to one task                                       *)

\* the source task is task 1; task 2 is a task of another user
SourceId == 1

OtherId == 2

GenRules ==
    { None, <<<<Bare("")>>>>, <<DailyRule>>, <<YearlyRule>>, <<UnknownDaysRule>>,
      <<YearlyBadUntilRule>>, <<DailyBadUntilRule>>,
      <<<<Seg("FREQ", "DAILY"), Seg("UNTIL", "2025-06-10")>>>>,
      <<<<Seg("FREQ", "WEEKLY"), Seg("BYDAY", "MO,WE,FR")>>>>,
      <<<<Seg("FREQ", "MONTHLY"), Seg("BYMONTHDAY", "31")>>>> }

GenSources ==
    { [NewTask("b", <<"d">>, "alice", "high", tg, due, r)
         EXCEPT !.recurrence_group_id = gid, !.completed = c] :
         tg \in {<<>>, <<"work">>}, due \in {None, <<2025, 6, 10>>},
         r \in GenRules, gid \in {None, <<7>>}, c \in BOOLEAN }

\* reminders that the table may hold: of the source task before, at and
\* after midnight of its due date, and one of the other task
GenReminderPool ==
    { NewReminder(SourceId, "alice", Midnight(<<2025, 6, 9>>) + 9),
      [NewReminder(SourceId, "alice", Midnight(<<2025, 6, 9>>) + 9)
         EXCEPT !.status = CANCELLED],
      [NewReminder(SourceId, "alice", Midnight(<<2025, 6, 8>>) + 9)
         EXCEPT !.status = TRIGGERED],
      NewReminder(SourceId, "alice", Midnight(<<2025, 6, 10>>) + 12),
      NewReminder(OtherId, "bob", Midnight(<<2025, 6, 9>>) + 9) }

GenReminderTables ==
    UNION {[1..n -> GenReminderPool] : n \in 0..MaxReminders}

\* 2025-06-09T08:00, 2025-06-10T09:00, 2025-06-10T10:00, 2025-06-17T00:00
GenClocks ==
    { Midnight(<<2025, 6, 9>>) + 8, Midnight(<<2025, 6, 10>>) + 9,
      Midnight(<<2025, 6, 10>>) + 10, Midnight(<<2025, 6, 17>>) }

InitGen ==
    /\ \E src \in GenSources :
          tasks = (SourceId :> src) @@
                  (OtherId :> NewTask("a", None, "bob", "none", <<>>, None, None))
    /\ reminders \in GenReminderTables
    /\ now \in GenClocks
    /\ ids = [task |-> 3, reminder |-> Len(reminders) + 1, group |-> 8]
    /\ dirty = [k \in {} |-> NoOverlay("")]
    /\ origin = EmptyTable
    /\ response = NoResponse
    /\ ops = 0
    /\ current_due = None
    /\ rule = <<>>
    /\ result = NoneResult
    /\ pc = "generate"

\* await generate_next_instance(task, session) on the source task: tasks and
\* reminders are the contents of the session
Generate ==
    /\ pc = "generate"
    /\ pc' = "done"
    /\ \E gen \in {generate_next_instance(tasks[SourceId], SourceId, reminders,
                                          now, ids.task, ids.group)} :
         LET after == IF gen.kind = "task"
                      THEN AddGenerated(Db(tasks, reminders), gen, ids)
                      ELSE Db(tasks, reminders)
         IN  /\ tasks' = after.tasks
             /\ reminders' = after.reminders
             /\ ids' = IdsAfter(ids, tasks[SourceId], gen)
             /\ origin' = IF gen.kind = "task" THEN origin @@ (ids.task :> SourceId)
                          ELSE origin
             /\ response' = Resp("generate_next_instance", "", SourceId,
                                 IF gen.kind = "error" THEN gen.exc ELSE gen.kind,
                                 IF gen.kind = "task" THEN ids.task ELSE 0)
    /\ UNCHANGED <<now, dirty, ops, current_due, rule, result>>

NextGen == Generate

SpecGen == InitGen /\ [][NextGen]_vars

----------------------------------------------------------------------------
(* Properties of the calculator, checked under SpecCalc                    *)

\* the call has returned or raised
Computed == pc = "done"

\* the configuration of the rule of the call, when the rule parses
RuleParses == parse_recurrence_rule(rule).ok

RuleConfig == parse_recurrence_rule(rule).config

SetMin(S) == CHOOSE x \in S : \A y \in S : x <= y

\* the weekday ordinals (Monday = 0) of the valid codes of BYDAY
ConfiguredOrdinals ==
    IF RuleConfig.by_day = None THEN {}
    ELSE {DAY_MAP[RuleConfig.by_day[1][i]] :
            i \in {j \in DOMAIN RuleConfig.by_day[1] :
                     RuleConfig.by_day[1][j] \in DOMAIN DAY_MAP}}

\* the date the WEEKLY rule with BYDAY names after reference date d
WeeklyByDayDate(d) ==
    LET w == (ToOrdinal(d) + 6) % 7
        later == {t \in ConfiguredOrdinals : t > w}
    IN  IF later # {}
        THEN FromOrdinal(ToOrdinal(d) + (SetMin(later) - w))
        ELSE FromOrdinal(ToOrdinal(d) + (7 - w + SetMin(ConfiguredOrdinals)))

\* d is later than the UNTIL date of the rule
AfterUntil(d) ==
    RuleConfig.until # None /\ ToOrdinal(d) > ToOrdinal(RuleConfig.until)

WeeklyByDayCall ==
    /\ Computed /\ current_due # None /\ RuleParses
    /\ RuleConfig.freq = "WEEKLY" /\ ConfiguredOrdinals # {}

\* C1 as stated: for a WEEKLY rule whose BYDAY has a valid weekday code and
\* every reference date d, the result is d moved to the smallest configured
\* weekday after weekday(d), or to the smallest configured weekday of the
\* next week when there is none.
C1_AsStated ==
    WeeklyByDayCall => result = DateResult(WeeklyByDayDate(current_due))

\* C1: for a WEEKLY rule that parses and whose BYDAY has a valid weekday code,
\* and every reference date d, the result is absence when the date of the
\* WEEKLY rule (d moved to the smallest configured weekday after weekday(d),
\* or to the smallest configured weekday of the next week when there is
\* none) is later than the UNTIL date of the rule, and is that date otherwise.
C1_WeeklyByDay ==
    WeeklyByDayCall =>
        result = IF AfterUntil(WeeklyByDayDate(current_due)) THEN NoneResult
                 ELSE DateResult(WeeklyByDayDate(current_due))

\* Friday 2025-06-06 with BYDAY=MO,WE,FR has wrapped to Monday 2025-06-09
C1_Witness ==
    /\ Computed
    /\ rule = <<Seg("FREQ", "WEEKLY"), Seg("BYDAY", "MO,WE,FR")>>
    /\ current_due = <<2025, 6, 6>>
    /\ result = DateResult(<<2025, 6, 9>>)

\* the number of days of the month after that of d
DaysOfNextMonth(d) ==
    LET m == IF d[2] = 12 THEN 1 ELSE d[2] + 1
        y == IF d[2] = 12 THEN d[1] + 1 ELSE d[1]
    IN  IF m = 2 THEN (IF IsLeap(y) THEN 29 ELSE 28)
        ELSE IF m \in {4, 6, 9, 11} THEN 30 ELSE 31

\* day k of the month after that of d, cut to the length of that month
InNextMonth(d, k) ==
    LET m == IF d[2] = 12 THEN 1 ELSE d[2] + 1
        y == IF d[2] = 12 THEN d[1] + 1 ELSE d[1]
    IN  <<y, m, IF k <= DaysOfNextMonth(d) THEN k ELSE DaysOfNextMonth(d)>>

MonthlyCall ==
    Computed /\ current_due # None /\ RuleParses /\ RuleConfig.freq = "MONTHLY"

\* C2 as stated: for a MONTHLY rule and every reference date d, the result is
\* the day min(target, length of the month) of the month after that of d,
\* the target being BYMONTHDAY if given and the day of d otherwise.
C2_AsStated ==
    MonthlyCall =>
        result = DateResult(InNextMonth(current_due,
                    IF RuleConfig.by_month_day # None
                    THEN RuleConfig.by_month_day[1] ELSE current_due[3]))

\* C2: for a MONTHLY rule that parses and every reference date d, a negative
\* BYMONTHDAY raises ValueError; otherwise, with the target being BYMONTHDAY
\* if given and not 0 and the day of d otherwise, and the date being the day
\* min(target, length of the month) of the month after that of d (December
\* rolls to January of the next year), the result is absence when that date
\* is later than the UNTIL date of the rule and is that date otherwise.
C2_Monthly ==
    MonthlyCall =>
        LET given == RuleConfig.by_month_day
            target == IF given # None /\ given[1] # 0 THEN given[1] ELSE current_due[3]
            date == InNextMonth(current_due, target)
        IN  IF target < 0 THEN result = Raised("ValueError")
            ELSE result = IF AfterUntil(date) THEN NoneResult ELSE DateResult(date)

\* BYMONTHDAY=31 with reference 2025-01-15 has given 2025-02-28
C2_Witness ==
    /\ Computed
    /\ rule = <<Seg("FREQ", "MONTHLY"), Seg("BYMONTHDAY", "31")>>
    /\ current_due = <<2025, 1, 15>>
    /\ result = DateResult(<<2025, 2, 28>>)

\* the candidate date of the call: what the branch of the frequency computes
CandidateOfCall ==
    Candidate(RuleConfig, IF current_due # None THEN current_due ELSE Today(now))

\* C3: for every rule with an UNTIL date and every reference date, the result
\* is absence when the candidate date is later than UNTIL and is the
\* candidate when it is on or before UNTIL; no result is a date after UNTIL.
C3_Until ==
    (Computed /\ RuleParses /\ RuleConfig.until # None) =>
        /\ CandidateOfCall.kind = "date" =>
              result = IF ToOrdinal(CandidateOfCall.date) > ToOrdinal(RuleConfig.until)
                       THEN NoneResult ELSE CandidateOfCall
        /\ result.kind = "date" =>
              ToOrdinal(result.date) <= ToOrdinal(RuleConfig.until)

\* FREQ=DAILY;UNTIL=2025-06-10 with reference 2025-06-10 has given absence
C3_Witness ==
    /\ Computed
    /\ rule = <<Seg("FREQ", "DAILY"), Seg("UNTIL", "2025-06-10")>>
    /\ current_due = <<2025, 6, 10>>
    /\ result = NoneResult

----------------------------------------------------------------------------
(* Properties of the generator, checked under SpecGen                      *)

\* the call has returned a successor: it is the task with id response.next
Produced == pc = "done" /\ response.status = "task"

Source == tasks[SourceId]

Successor == tasks[response.next]

\* the reminders of the task with this id
AttachedTo(id) == {r \in DOMAIN reminders : reminders[r].task_id = id}

\* newTrigger of reminder r of the source: its trigger time moved by the
\* days from the due date of the source to that of the successor
MovedTrigger(r) ==
    reminders[r].trigger_at
        + HoursPerDay * (ToOrdinal(Successor.due_date) - ToOrdinal(Source.due_date))

C8_SuccessorFields ==
    Produced =>
        /\ Successor.title = Source.title
        /\ Successor.description = Source.description
        /\ Successor.user_id = Source.user_id
        /\ Successor.priority = Source.priority
        /\ Successor.recurrence_rule = Source.recurrence_rule
        /\ Successor.tags = Source.tags
        /\ DateResult(Successor.due_date) =
              compute_next_due_date(Source.due_date, Source.recurrence_rule[1],
                                    Today(now))
        /\ Successor.completed = FALSE

\* a completed source with tags has a successor that is not completed
C8_Witness ==
    /\ Produced
    /\ Source.completed /\ Source.tags = <<"work">>
    /\ Source.recurrence_rule = <<<<Seg("FREQ", "MONTHLY"), Seg("BYMONTHDAY", "31")>>>>
    /\ Successor.due_date = <<2025, 7, 31>>
    /\ ~Successor.completed

\* the source has no recurrence rule: it is None or the empty string
NoRule(task) ==
    task.recurrence_rule = None \/ task.recurrence_rule = <<<<Bare("")>>>>

\* the rule of the source yields no next date
RuleEnded(task, clock) ==
    /\ ~NoRule(task)
    /\ compute_next_due_date(task.due_date, task.recurrence_rule[1], Today(clock))
          = NoneResult

\* C9: a call of the generator on a task without recurrence rule, or whose
\* rule yields no next date, returns absence, raises nothing and adds no
\* task and no reminder to the session.
C9_Absence ==
    [][(pc = "generate" /\ (NoRule(Source) \/ RuleEnded(Source, now))) =>
          /\ response'.status = "none"
          /\ tasks' = tasks
          /\ reminders' = reminders]_vars

\* the call on a source without rule that has a reminder has returned absence
C9_Witness ==
    /\ pc = "done" /\ response.status = "none"
    /\ Source.recurrence_rule = None
    /\ AttachedTo(SourceId) # {}
    /\ DOMAIN tasks = {SourceId, OtherId}

----------------------------------------------------------------------------
(* Properties of the task manager, checked under Spec                      *)

\* the tasks stored by the step
NewTasks == (DOMAIN tasks') \ (DOMAIN tasks)

\* the step is a PATCH request or a complete_task call that found task id
CompletionCall(id) ==
    /\ response'.op \in {"update_task_partial", "complete_task"}
    /\ response'.task = id
    /\ ops' = ops + 1

\* the handler of the step has raised
HandlerRaised == response'.status \in {"500", "DATABASE_ERROR"}

\* the step makes the completion of task id visible
BecomesCompleted(id) ==
    id \in DOMAIN tasks' /\ ~tasks[id].completed /\ tasks'[id].completed

\* the reminders of task id that are pending before the step are cancelled
\* after it
PendingCancelled(id) ==
    \A r \in DOMAIN reminders :
        (reminders[r].task_id = id /\ reminders[r].status = PENDING) =>
            (r \in DOMAIN reminders' /\ reminders'[r].status = CANCELLED)

\* what the calculator gives for the task as the step leaves it
NextDueAfter(id) ==
    compute_next_due_date(tasks'[id].due_date, tasks'[id].recurrence_rule[1],
                          Today(now))

\* C5 as stated: every generated task carries a recurrence_group_id, the
\* same as the task it was generated from.
C5_AsStated ==
    \A n \in DOMAIN origin :
        (n \in DOMAIN tasks /\ origin[n] \in DOMAIN tasks) =>
            /\ tasks[n].recurrence_group_id # None
            /\ tasks[n].recurrence_group_id = tasks[origin[n]].recurrence_group_id

\* C6 as stated: a PATCH, PUT or complete_task step that changes a task
\* with a recurrence rule from not completed to completed, the rule
\* yielding a next date, stores a successor task.
C6_AsStated ==
    [][\A id \in DOMAIN tasks :
          ( /\ response'.op \in {"update_task_partial", "update_task_full",
                                 "complete_task"}
            /\ BecomesCompleted(id)
            /\ Truthy(tasks[id].recurrence_rule)
            /\ Truthy(tasks'[id].recurrence_rule)
            /\ NextDueAfter(id).kind = "date" )
          => NewTasks # {}]_vars

\* C7: a completion through PATCH or complete_task is all or nothing.  When
\* the handler raises, the committed tasks and reminders are those of
\* before.  When the task becomes completed, its pending reminders are
\* cancelled, the generator has not raised and, if the rule yields a next
\* date, the successor is stored and every reminder stored with it is
\* attached to it.  When a task is stored or a reminder changes, the task
\* is completed and its pending reminders are cancelled.
C7_AllOrNothing ==
    [][\A id \in DOMAIN tasks :
          CompletionCall(id) =>
            /\ HandlerRaised => (tasks' = tasks /\ reminders' = reminders)
            /\ BecomesCompleted(id) =>
                  /\ PendingCancelled(id)
                  /\ Truthy(tasks'[id].recurrence_rule) =>
                        /\ NextDueAfter(id).kind # "error"
                        /\ NextDueAfter(id).kind = "date" =>
                              \E n \in NewTasks :
                                  /\ origin'[n] = id
                                  /\ tasks'[n].due_date = NextDueAfter(id).date
                                  /\ \A r \in (DOMAIN reminders') \ (DOMAIN reminders) :
                                        reminders'[r].task_id = n
            /\ (NewTasks # {} \/ reminders' # reminders) =>
                  /\ id \in DOMAIN tasks' /\ tasks'[id].completed
                  /\ PendingCancelled(id)]_vars

\* complete_task on the task whose rule has a malformed UNTIL has returned
\* DATABASE_ERROR: the task is not completed, its reminder is still pending
\* and no task has been stored
C7_Witness ==
    /\ response = Resp("complete_task", "alice", 1, "DATABASE_ERROR", 0)
    /\ DOMAIN tasks = {1}
    /\ tasks[1].recurrence_rule = <<YearlyBadUntilRule>>
    /\ ~tasks[1].completed
    /\ \E r \in DOMAIN reminders :
          reminders[r].task_id = 1 /\ reminders[r].status = PENDING

\* the FREQ value of the rule is none of DAILY, WEEKLY and MONTHLY
OtherFreq(r) ==
    LET parts == SplitParts(r, EmptyParts)
    IN  "FREQ" \in DOMAIN parts /\ parts["FREQ"] \notin {"DAILY", "WEEKLY", "MONTHLY"}

\* the task has a rule with such a FREQ value, before and after the step
KeepsOtherFreq(id) ==
    /\ Truthy(tasks[id].recurrence_rule) /\ OtherFreq(tasks[id].recurrence_rule[1])
    /\ id \in DOMAIN tasks' /\ tasks'[id].recurrence_rule = tasks[id].recurrence_rule

\* C10 as stated: for every rule whose FREQ value is none of DAILY, WEEKLY
\* and MONTHLY the calculator returns absence and raises nothing, and a
\* PATCH request or complete_task call on a task with such a rule stores
\* no successor.
C10_AsStated ==
    [][\A id \in DOMAIN tasks :
          (CompletionCall(id) /\ KeepsOtherFreq(id)) =>
              /\ NextDueAfter(id) = NoneResult
              /\ NewTasks = {}]_vars

\* C10: for every rule that parses and whose FREQ value is none of DAILY,
\* WEEKLY and MONTHLY the calculator returns absence and raises nothing,
\* and a PATCH request or complete_task call on a task with such a rule
\* stores no successor.
C10_UnknownFreq ==
    [][\A id \in DOMAIN tasks :
          ( /\ CompletionCall(id) /\ KeepsOtherFreq(id)
            /\ parse_recurrence_rule(tasks[id].recurrence_rule[1]).ok ) =>
              /\ NextDueAfter(id) = NoneResult
              /\ NewTasks = {}]_vars

\* the task with FREQ=YEARLY has been completed and is the only task
C10_Witness ==
    /\ response = Resp("complete_task", "alice", 1, "ok", 0)
    /\ DOMAIN tasks = {1}
    /\ tasks[1].recurrence_rule = <<YearlyRule>>
    /\ tasks[1].completed

----------------------------------------------------------------------------
(* Properties of the parser and the calculator, checked under SpecCalc     *)

\* the segments of the rule that set FREQ
FreqSegments ==
    {i \in DOMAIN rule : rule[i].eq /\ Upper(Strip(rule[i].key)) = "FREQ"}

\* the text given for FREQ by the last such segment, without the
\* whitespace around it
GivenFreq ==
    Strip(rule[CHOOSE i \in FreqSegments : \A j \in FreqSegments : j <= i].value)

HasUnknownCode ==
    /\ RuleConfig.by_day # None
    /\ \E j \in DOMAIN RuleConfig.by_day[1] :
          RuleConfig.by_day[1][j] \notin DOMAIN DAY_MAP

\* C12 as stated: for every WEEKLY rule whose BYDAY list has unknown codes,
\* a list of unknown codes only included, the calculator raises nothing: it
\* returns a date, the one of the remaining valid codes when there are
\* some, or absence because of UNTIL.
C12_AsStated ==
    (Computed /\ RuleParses /\ RuleConfig.freq = "WEEKLY" /\ HasUnknownCode) =>
        /\ result.kind # "error"
        /\ (current_due # None /\ ConfiguredOrdinals # {}) =>
              result = IF AfterUntil(WeeklyByDayDate(current_due)) THEN NoneResult
                       ELSE DateResult(WeeklyByDayDate(current_due))

\* the rule of a MONTHLY call gives a BYMONTHDAY outside 1..31
OutOfRangeCall ==
    /\ MonthlyCall
    /\ RuleConfig.by_month_day # None
    /\ RuleConfig.by_month_day[1] \notin 1..31

\* absence when the date is after the UNTIL date of the rule, else the date
UnlessAfterUntil(d) == IF AfterUntil(d) THEN NoneResult ELSE DateResult(d)

\* C13 as stated: for a MONTHLY rule whose BYMONTHDAY is outside 1..31 the
\* calculator fails with the error of the date construction and returns no
\* date.
C13_AsStated ==
    OutOfRangeCall => result.kind = "error"

\* C13: for a MONTHLY rule that parses and whose BYMONTHDAY is outside
\* 1..31, and every reference date d: a BYMONTHDAY above 31 gives the last
\* day of the month after that of d, a BYMONTHDAY of 0 gives the day of d
\* in that month (cut to its length), both unless the date is after UNTIL,
\* when the result is absence; only a negative BYMONTHDAY makes the date
\* construction raise ValueError.
C13_OutOfRange ==
    OutOfRangeCall =>
        LET given == RuleConfig.by_month_day[1]
        IN  CASE given > 31 ->
                   result = UnlessAfterUntil(
                               InNextMonth(current_due, DaysOfNextMonth(current_due)))
              [] given = 0 ->
                   result = UnlessAfterUntil(InNextMonth(current_due, current_due[3]))
              [] OTHER -> result = Raised("ValueError")

\* BYMONTHDAY=35 with reference 2025-01-15 has given 2025-02-28
C13_Witness ==
    /\ Computed
    /\ rule = <<Seg("FREQ", "MONTHLY"), Seg("BYMONTHDAY", "35")>>
    /\ current_due = <<2025, 1, 15>>
    /\ result = DateResult(<<2025, 2, 28>>)

\* C18: the result of a call is fixed by current_due and the rule: with
\* a current_due, the call gives that same result whatever the clock
\* reads; without one, the clock enters only as today's date, the result
\* being that of the call with today's date as current_due.
C18_Deterministic ==
    Computed =>
        IF current_due # None
        THEN \A t \in CalcNows :
                result = compute_next_due_date(current_due, rule, Today(t))
        ELSE \A t \in CalcNows :
                result = compute_next_due_date(Today(now), rule, Today(t))

\* the call for 2025-01-31 with FREQ=MONTHLY at the clock 2025-06-10T15:00
\* has returned 2025-02-28
C18_Witness ==
    /\ Computed
    /\ current_due = <<2025, 1, 31>> /\ rule = <<Seg("FREQ", "MONTHLY")>>
    /\ now = Midnight(<<2025, 6, 10>>) + 15
    /\ result = DateResult(<<2025, 2, 28>>)

\* the day after d in the calendar
NextDay(d) ==
    LET len == IF d[2] = 2 THEN (IF IsLeap(d[1]) THEN 29 ELSE 28)
               ELSE IF d[2] \in {4, 6, 9, 11} THEN 30 ELSE 31
    IN  IF d[3] < len THEN <<d[1], d[2], d[3] + 1>>
        ELSE IF d[2] < 12 THEN <<d[1], d[2] + 1, 1>>
        ELSE <<d[1] + 1, 1, 1>>

\* the rule gives DAILY for FREQ, or gives no FREQ at all
DailyCall ==
    /\ Computed /\ current_due # None /\ RuleParses
    /\ (FreqSegments = {} \/ GivenFreq = "DAILY")

\* C19 as stated: for every DAILY rule and every reference date d the
\* result is the day after d.
C19_AsStated ==
    DailyCall => result = DateResult(NextDay(current_due))

\* C19: for every rule that parses and gives DAILY or no FREQ, and every
\* reference date d, the result is absence when the day after d is later
\* than the UNTIL date of the rule, and is the day after d otherwise.
C19_Daily ==
    DailyCall => result = UnlessAfterUntil(NextDay(current_due))

\* 2024-12-31 with FREQ=DAILY has given 2025-01-01
C19_Witness ==
    /\ Computed /\ rule = <<Seg("FREQ", "DAILY")>>
    /\ current_due = <<2024, 12, 31>>
    /\ result = DateResult(<<2025, 1, 1>>)

\* the segments of the rule that give BYDAY
ByDaySegments ==
    {i \in DOMAIN rule : rule[i].eq /\ Upper(Strip(rule[i].key)) = "BYDAY"}

\* the rule gives WEEKLY for FREQ and gives no BYDAY
WeeklyPlainCall ==
    /\ Computed /\ current_due # None /\ RuleParses
    /\ FreqSegments # {} /\ GivenFreq = "WEEKLY"
    /\ ByDaySegments = {}

\* the date seven calendar days after d
WeekAfter(d) == NextDay(NextDay(NextDay(NextDay(NextDay(NextDay(NextDay(d)))))))

\* C20 as stated: for every WEEKLY rule without BYDAY and every reference
\* date d the result is d plus 7 days.
C20_AsStated ==
    WeeklyPlainCall => result = DateResult(WeekAfter(current_due))

\* C20: for every WEEKLY rule that parses and has no BYDAY, and every
\* reference date d, the result is absence when d plus 7 days is later than
\* the UNTIL date of the rule, and is d plus 7 days otherwise.
C20_WeeklyPlain ==
    WeeklyPlainCall => result = UnlessAfterUntil(WeekAfter(current_due))

\* Monday 2024-02-26 with FREQ=WEEKLY has given Monday 2024-03-04
C20_Witness ==
    /\ Computed /\ rule = <<Seg("FREQ", "WEEKLY")>>
    /\ current_due = <<2024, 2, 26>>
    /\ result = DateResult(<<2024, 3, 4>>)

----------------------------------------------------------------------------
(* Properties of chains of occurrences, checked under SpecChain            *)

\* the date the call counts from
Reference == IF current_due # None THEN current_due ELSE Today(now)

\* the days from the reference date to the returned date
DaysLater == ToOrdinal(result.date) - ToOrdinal(Reference)

\* C25: every date the calculator returns is later than the reference date
\* (today when there is none), for every rule and at every occurrence of a
\* chain, so the due dates of a chain increase; for a WEEKLY rule whose
\* BYDAY has a valid code it is 1 to 7 days later and falls on a configured
\* weekday.
C25_StrictlyLater ==
    (Computed /\ result.kind = "date") =>
        /\ DaysLater >= 1
        /\ (RuleConfig.freq = "WEEKLY" /\ ConfiguredOrdinals # {}) =>
              /\ DaysLater \in 1..7
              /\ (ToOrdinal(result.date) + 6) % 7 \in ConfiguredOrdinals

\* an occurrence of a chain with FREQ=MONTHLY;BYMONTHDAY=1: 2025-03-01, a
\* date that only a chain reaches, has given 2025-04-01
C25_Witness ==
    /\ Computed
    /\ rule = <<Seg("FREQ", "MONTHLY"), Seg("BYMONTHDAY", "1")>>
    /\ current_due = <<2025, 3, 1>>
    /\ result = DateResult(<<2025, 4, 1>>)

\* the rule parses, has an UNTIL date and a FREQ of DAILY, WEEKLY or MONTHLY
UntilChain ==
    /\ RuleParses /\ RuleConfig.until # None
    /\ RuleConfig.freq \in {"DAILY", "WEEKLY", "MONTHLY"}

\* C26: along the chain of a rule with an UNTIL date and a FREQ of DAILY,
\* WEEKLY or MONTHLY, every due date returned is on or before the UNTIL
\* date, and when the newest occurrence is completed again and again a call
\* comes that returns no date, so the chain ends.
C26_ChainEnds ==
    /\ []((UntilChain /\ Computed /\ result.kind = "date") =>
              ~AfterUntil(result.date))
    /\ ((UntilChain /\ pc = "call") ~> (pc = "done" /\ result.kind # "date"))

\* the chain of FREQ=MONTHLY;BYMONTHDAY=31;UNTIL=2026-01-31 has come to its
\* occurrence of 2026-01-31, and the call on it has returned absence
C26_Witness ==
    /\ Computed
    /\ rule = <<Seg("FREQ", "MONTHLY"), Seg("BYMONTHDAY", "31"),
                Seg("UNTIL", "2026-01-31")>>
    /\ current_due = <<2026, 1, 31>>
    /\ result = NoneResult

\* C30: along a chain with a MONTHLY rule, an occurrence computed from the
\* occurrence due on d is in the month after that of d; without BYMONTHDAY
\* its day of month is the day of d cut to the length of its month, so the
\* day never increases along the chain (31 January, 28 February, 28
\* March); with BYMONTHDAY = k in 1..31 its day is k cut to the length of
\* its month.
C30_MonthlyChain ==
    (MonthlyCall /\ result.kind = "date") =>
        /\ <<result.date[1], result.date[2]>>
              = <<InNextMonth(current_due, 1)[1], InNextMonth(current_due, 1)[2]>>
        /\ RuleConfig.by_month_day = None =>
              /\ result.date[3] <= current_due[3]
              /\ result.date = InNextMonth(current_due, current_due[3])
        /\ (RuleConfig.by_month_day # None /\ RuleConfig.by_month_day[1] \in 1..31) =>
              result.date = InNextMonth(current_due, RuleConfig.by_month_day[1])

\* the chain of FREQ=MONTHLY that was cut to 2025-02-28 has gone on to
\* 2025-03-28
C30_Witness ==
    /\ Computed /\ rule = <<Seg("FREQ", "MONTHLY")>>
    /\ current_due = <<2025, 2, 28>>
    /\ result = DateResult(<<2025, 3, 28>>)

----------------------------------------------------------------------------
(* More properties of the generator, checked under SpecGen                 *)

\* the rule has an UNTIL that is no YYYY-MM-DD date
MalformedUntil(r) ==
    LET parts == SplitParts(r, EmptyParts)
    IN  "UNTIL" \in DOMAIN parts /\ ~FromIsoFormat(parts["UNTIL"]).ok

\* C14: for a task whose rule has a malformed UNTIL the parser fails with
\* ValueError, the generator does not catch it, so the call raises it, and
\* the session has no task and no reminder more than before the call.
C14_MalformedUntil ==
    [][( /\ pc = "generate"
         /\ ~NoRule(Source)
         /\ MalformedUntil(Source.recurrence_rule[1]) ) =>
          /\ ~parse_recurrence_rule(Source.recurrence_rule[1]).ok
          /\ parse_recurrence_rule(Source.recurrence_rule[1]).exc = "ValueError"
          /\ response'.status = "ValueError"
          /\ response'.next = 0
          /\ tasks' = tasks
          /\ reminders' = reminders]_vars

\* the call on a task with FREQ=DAILY;UNTIL=2025-13-01 that has a reminder
\* has raised ValueError and the session holds the two tasks of before
C14_Witness ==
    /\ pc = "done" /\ response.status = "ValueError"
    /\ Source.recurrence_rule = <<DailyBadUntilRule>>
    /\ Source.due_date = <<2025, 6, 10>>
    /\ AttachedTo(SourceId) # {}
    /\ DOMAIN tasks = {SourceId, OtherId}
    /\ DOMAIN reminders = AttachedTo(SourceId)

\* C16: a call of the generator leaves the source task as it was, its
\* completed flag, rule, due date and group id included, and leaves every
\* reminder of the source with the status and trigger time it had, whether
\* or not a successor is produced.
C16_SourceUnchanged ==
    [][pc = "generate" =>
          /\ SourceId \in DOMAIN tasks'
          /\ tasks'[SourceId] = tasks[SourceId]
          /\ \A r \in AttachedTo(SourceId) :
                /\ r \in DOMAIN reminders'
                /\ reminders'[r] = reminders[r]]_vars

\* the call on a completed source without group id, with a cancelled
\* reminder, has produced a successor with a group id and a cloned
\* reminder: the source is still completed and without group id, due
\* 2025-06-10, and its reminder still cancelled at 2025-06-09T09:00
C16_Witness ==
    /\ Produced
    /\ Source.completed /\ Source.recurrence_group_id = None
    /\ Source.due_date = <<2025, 6, 10>> /\ Source.recurrence_rule = <<DailyRule>>
    /\ Successor.recurrence_group_id # None /\ ~Successor.completed
    /\ AttachedTo(response.next) # {}
    /\ \E r \in AttachedTo(SourceId) :
          /\ reminders[r].status = CANCELLED
          /\ reminders[r].trigger_at = Midnight(<<2025, 6, 9>>) + 9

----------------------------------------------------------------------------
(* More properties of the task manager, checked under Spec                 *)

\* the trigger time of reminder r of task id moved by the days from the
\* due date of id to that of the stored task n
MovedBy(id, n, r) ==
    reminders[r].trigger_at
        + HoursPerDay * (ToOrdinal(tasks'[n].due_date) - ToOrdinal(tasks'[id].due_date))

\* the reminders of task id before the step, whatever their status, whose
\* moved trigger time is at
MovedTo(id, n, at) == {r \in AttachedTo(id) : MovedBy(id, n, r) = at}

\* the reminders stored by the step for task n with trigger time at
StoredFor(n, at) ==
    {c \in (DOMAIN reminders') \ (DOMAIN reminders) :
        reminders'[c].task_id = n /\ reminders'[c].trigger_at = at}

\* C15: when a PATCH request or complete_task call on a task with a due
\* date stores a successor, the successor gets one reminder for every
\* reminder of the task, PENDING, TRIGGERED or CANCELLED before the step,
\* whose moved trigger time is later than the clock, and no other; the
\* reminders that were pending are cancelled by the same step and are
\* cloned all the same.
C15_AnyStatus ==
    [][\A id \in DOMAIN tasks :
          ( /\ CompletionCall(id) /\ NewTasks # {}
            /\ tasks'[id].due_date # None ) =>
              \A n \in NewTasks :
                  /\ PendingCancelled(id)
                  /\ \A c \in (DOMAIN reminders') \ (DOMAIN reminders) :
                        reminders'[c].task_id = n
                  /\ \A at \in {MovedBy(id, n, r) : r \in AttachedTo(id)}
                               \cup {reminders'[c].trigger_at :
                                       c \in (DOMAIN reminders') \ (DOMAIN reminders)} :
                        Cardinality(StoredFor(n, at))
                        = IF at > now THEN Cardinality(MovedTo(id, n, at)) ELSE 0]_vars

\* complete_task on the DAILY task due 2025-06-10 has cancelled its
\* reminder of 2025-06-10T07:00 and stored the successor with a pending
\* reminder at 2025-06-11T07:00
C15_Witness ==
    /\ response.op = "complete_task" /\ response.status = "ok"
    /\ response.task \in DOMAIN tasks /\ response.next \in DOMAIN tasks
    /\ \E r \in AttachedTo(response.task), c \in AttachedTo(response.next) :
          /\ reminders[r].status = CANCELLED
          /\ reminders[r].trigger_at = Midnight(<<2025, 6, 10>>) + 7
          /\ reminders[c].status = PENDING
          /\ reminders[c].trigger_at = Midnight(<<2025, 6, 11>>) + 7

\* the committed tasks and reminders after PATCH {"completed": true} on
\* task id, served in the current state
PatchOutcome(id) ==
    LET s == PatchSession(id, [NoPatch EXCEPT !.completed = <<TRUE>>], now, ids)
        committed == Db(tasks, reminders)
    IN  IF s.exc # "" THEN CloseAfterError(committed, s.db)
        ELSE Commit(committed, s.db)

\* the step is a complete_task call with completed = true that found task
\* id, in a chat session without unflushed attributes
ToolCompletes(id) ==
    /\ response'.op = "complete_task" /\ response'.task = id
    /\ ops' = ops + 1
    /\ \A u \in Users : DirtyOf(u) = {}
    /\ \/ response'.status = "VALIDATION_ERROR" /\ tasks[id].completed
       \/ response'.status = "ok" /\ tasks'[id].completed

\* C17 as stated: whatever the state of the task, completed or not,
\* recurring or not, complete_task with completed = true leaves the tasks
\* and reminders that PATCH with completed = true would leave.
C17_AsStated ==
    [][\A id \in DOMAIN tasks :
          (ToolCompletes(id) /\ Room(PatchSession(id,
                [NoPatch EXCEPT !.completed = <<TRUE>>], now, ids).gen)) =>
              Db(tasks', reminders') = PatchOutcome(id)]_vars

\* the step is a request or tool call of user u
IssuedBy(u) == response'.user = u /\ ops' = ops + 1

\* the rows of the table that the step changes or deletes
Touched(before, after) ==
    {k \in DOMAIN before : k \notin DOMAIN after \/ after[k] # before[k]}

\* the rows of the table that the step stores
Added(before, after) == (DOMAIN after) \ (DOMAIN before)

\* C21: a request or tool call of user u finds (a call whose flush fails
\* ends before it looks for its task), changes and deletes only
\* tasks and reminders whose user_id is u, and stores only tasks and
\* reminders with user_id u; after the step every generated task has the
\* user_id of the task it was generated from, and every reminder has the
\* user_id of the task it is attached to.
C21_UserIsolation ==
    [][\A u \in Users :
          IssuedBy(u) =>
            /\ (response'.task \in DOMAIN tasks /\ ~FlushFails(u)) =>
                  tasks[response'.task].user_id = u
            /\ \A id \in Touched(tasks, tasks') : tasks[id].user_id = u
            /\ \A id \in Added(tasks, tasks') : tasks'[id].user_id = u
            /\ \A r \in Touched(reminders, reminders') : reminders[r].user_id = u
            /\ \A r \in Added(reminders, reminders') : reminders'[r].user_id = u
            /\ \A n \in DOMAIN origin' :
                  (n \in DOMAIN tasks' /\ origin'[n] \in DOMAIN tasks') =>
                      tasks'[n].user_id = tasks'[origin'[n]].user_id
            /\ \A r \in DOMAIN reminders' :
                  /\ reminders'[r].task_id \in DOMAIN tasks'
                  /\ reminders'[r].user_id = tasks'[reminders'[r].task_id].user_id]_vars

\* next to the task of alice, bob has completed his own recurring task: the
\* successor and the reminder cloned for it are bob's, and the task of
\* alice is not completed
C21_Witness ==
    /\ response.op = "complete_task" /\ response.user = "bob"
    /\ response.status = "ok" /\ response.next \in DOMAIN tasks
    /\ 1 \in DOMAIN tasks /\ tasks[1].user_id = "alice" /\ ~tasks[1].completed
    /\ tasks[response.task].user_id = "bob" /\ tasks[response.task].completed
    /\ tasks[response.next].user_id = "bob"
    /\ \E c \in AttachedTo(response.next) : reminders[c].user_id = "bob"

\* the PATCH request or complete_task call of the step has succeeded
Succeeded == response'.status \in {"200", "ok"}

\* C22: when a PATCH request or a complete_task call succeeds and makes a
\* task completed, no reminder of that task is pending afterwards: each of
\* its reminders is still stored with its trigger time, those that were
\* pending are cancelled, and those that were triggered or cancelled have
\* the status they had.
C22_NoPendingLeft ==
    [][\A id \in DOMAIN tasks :
          (CompletionCall(id) /\ Succeeded /\ BecomesCompleted(id)) =>
            /\ \A r \in DOMAIN reminders' :
                  reminders'[r].task_id = id => reminders'[r].status # PENDING
            /\ \A r \in AttachedTo(id) :
                  /\ r \in DOMAIN reminders'
                  /\ reminders'[r] =
                        [reminders[r] EXCEPT
                            !.status = IF @ = PENDING THEN CANCELLED ELSE @]]_vars

\* a task with a triggered and a pending reminder has been completed: the
\* first is still triggered and the second is cancelled
C22_Witness ==
    /\ response.op \in {"update_task_partial", "complete_task"}
    /\ response.status \in {"200", "ok"}
    /\ response.task \in DOMAIN tasks /\ tasks[response.task].completed
    /\ \E r1, r2 \in AttachedTo(response.task) :
          /\ reminders[r1].status = TRIGGERED
          /\ reminders[r2].status = CANCELLED

\* the step is a complete_task call that found task id
ToolCall(id) ==
    response'.op = "complete_task" /\ response'.task = id /\ ops' = ops + 1

\* C23: a complete_task call that returns VALIDATION_ERROR changes nothing:
\* the tasks and reminders are those of before and no task or reminder is
\* stored.  A call that returns ok has changed the completed flag of the
\* task, so a call that asks for the value the flag already has never
\* goes through; a call that returns DATABASE_ERROR changes nothing either
\* and comes from a failed flush or from a generator that raised on a task
\* that was not completed.
C23_AlreadyInState ==
    [][\A id \in DOMAIN tasks :
          ToolCall(id) =>
            /\ response'.status \in {"VALIDATION_ERROR", "ok", "DATABASE_ERROR"}
            /\ response'.status = "VALIDATION_ERROR" =>
                  /\ tasks' = tasks /\ reminders' = reminders
                  /\ ids' = ids /\ origin' = origin /\ response'.next = 0
            /\ response'.status = "ok" =>
                  tasks'[id].completed # tasks[id].completed
            /\ response'.status = "DATABASE_ERROR" =>
                  /\ tasks' = tasks /\ reminders' = reminders
                  /\ FlushFails(response'.user) \/ ~tasks[id].completed]_vars

\* complete_task with completed = true on the completed DAILY task that has
\* a pending reminder has returned VALIDATION_ERROR: the reminder is still
\* pending and there is no successor
C23_Witness ==
    /\ response = Resp("complete_task", "alice", 1, "VALIDATION_ERROR", 0)
    /\ DOMAIN tasks = {1}
    /\ tasks[1].completed /\ tasks[1].recurrence_rule = <<DailyRule>>
    /\ tasks[1].due_date = <<2025, 6, 10>>
    /\ \E r \in AttachedTo(1) : reminders[r].status = PENDING

\* C24: every reminder is stored with status PENDING, and no step ever
\* changes the status of a reminder that is CANCELLED or TRIGGERED; setting
\* a task back to not completed leaves its cancelled reminders cancelled.
C24_Lifecycle ==
    [][/\ \A r \in Added(reminders, reminders') : reminders'[r].status = PENDING
       /\ \A r \in (DOMAIN reminders) \cap (DOMAIN reminders') :
             /\ reminders[r].status \in {CANCELLED, TRIGGERED} =>
                   reminders'[r].status = reminders[r].status
             /\ reminders'[r].status \in {PENDING, TRIGGERED, CANCELLED}
             /\ reminders'[r].status = PENDING => reminders[r].status = PENDING]_vars

\* a PATCH request has set the completed task back to not completed: the
\* reminder cancelled by the completion is still cancelled
C24_Witness ==
    /\ response.op = "update_task_partial" /\ response.status = "200"
    /\ response.task \in DOMAIN tasks /\ ~tasks[response.task].completed
    /\ \E r \in AttachedTo(response.task) : reminders[r].status = CANCELLED

\* C27 as stated: no two tasks are ever generated from the same task.
C27_AsStated ==
    \A n1, n2 \in DOMAIN origin :
        n1 # n2 => origin[n1] # origin[n2]

\* the fields that update_task may set, other than the due date
Editable(task) ==
    <<task.title, task.description, task.priority, task.tags>>

\* C28 as stated: what an update_task call that returned VALIDATION_ERROR
\* had supplied is never stored, not by the call itself and not by the
\* commit of a later complete_task call: neither changes the title, the
\* description, the priority or the tags of a stored task.
C28_AsStated ==
    [][\A id \in (DOMAIN tasks) \cap (DOMAIN tasks') :
          ( /\ ops' = ops + 1
            /\ \/ response'.op = "complete_task"
               \/ response'.op = "update_task" /\ response'.status = "VALIDATION_ERROR" )
          => Editable(tasks'[id]) = Editable(tasks[id])]_vars

\* the step is a PATCH request or complete_task call that has set the
\* completed task id back to not completed
SetBack(id) ==
    /\ CompletionCall(id) /\ Succeeded
    /\ tasks[id].completed
    /\ id \in DOMAIN tasks' /\ ~tasks'[id].completed

\* C29 as stated: setting a task back to not completed changes the
\* completed flag of that task and nothing else: every other field and
\* task, successors included, and every reminder is as before, and no task
\* or reminder is stored.
C29_AsStated ==
    [][\A id \in DOMAIN tasks :
          SetBack(id) =>
            /\ tasks' = [tasks EXCEPT ![id].completed = FALSE]
            /\ reminders' = reminders
            /\ ids' = ids /\ origin' = origin]_vars

====
